---- MODULE Spec2Model ----
(***************************************************************************)
(* Blog API (golang_training_2025): the layered variant, PostHandler over  *)
(* PostRepository (PostgreSQL), RedisCache and ElasticSearch.              *)
(*                                                                         *)
(* Every request is a sequence of steps; each step is one call to one of   *)
(* the three stores, so that concurrent requests and the background        *)
(* goroutines interleave between the calls exactly as net/http handlers    *)
(* do.  A call to a store can fail (connection lost, error response): the  *)
(* failure is a nondeterministic outcome of the step.  A handler's last    *)
(* step writes the response; the request then leaves the state, and so     *)
(* does a goroutine that has returned.                                     *)
(*                                                                         *)
(* Strings.  A title or a content is a TLA+ string; only its emptiness is  *)
(* looked at by the handlers.  A tag is a sequence of atoms, an atom being *)
(* either the comma "," or a comma-free piece of text, so that the         *)
(* array_to_string / strings.Split round trip of GetPostByID is computed,  *)
(* not assumed: <<"a", ",", "b">> is the tag "a,b" and <<>> is the tag "". *)
(***************************************************************************)
EXTENDS Naturals, Sequences, FiniteSets, TLC

VARIABLES
    posts,            \* table posts: id -> row (committed rows only)
    activity_logs,    \* table activity_logs: set of committed rows
    posts_id_seq,     \* last value of the SERIAL sequence of posts.id
    logs_id_seq,      \* last value of the SERIAL sequence of activity_logs.id
    cache,            \* Redis: post id -> JSON document of a Post, for the keys present
    index,            \* Elasticsearch index "posts": document id -> document
    limit,            \* number of HTTP requests the clients send in this behaviour
    started,          \* number of HTTP requests received so far
    reqs,             \* the requests being handled: request number -> handler state
    tasks,            \* the running background goroutines: launching request -> task
    acked,            \* history: post id -> newest write an UpdatePost has answered 200 for
    invalidated,      \* history: post id -> newest write whose cache invalidation completed
    task_failed,      \* history: post ids a background goroutine has failed to index
    faults,           \* number of store calls that have failed so far
    now,              \* clock of the Redis server, in minutes since start-up
    expires,          \* Redis: post id -> time at which the key's TTL runs out
    process           \* func main: where it is, the handles it has opened and closed

vars == <<posts, activity_logs, posts_id_seq, logs_id_seq, cache, index,
          limit, started, reqs, tasks, acked, invalidated, task_failed, faults,
          now, expires, process>>

----------------------------------------------------------------------------
(* Bounds of the model *)

\* Requests sent in one behaviour.
MaxRequests == 2
\* Calls to a store that fail in one behaviour.
MaxFaults == 1
\* Minutes the clock of Redis runs for.
MaxTime == 7

(* Program constants *)

\* Rows of the sample data the migration inserts into posts.
NumSeedPosts == 5
\* "size": 5 of the related-posts query.
RelatedSize == 5
\* TTL handed to SetPost, in minutes.
CacheTTLMinutes == 5
\* MaxRetries of the Elasticsearch client the layered server builds.
MaxRetries == 3

StatusOK == 200
StatusCreated == 201
StatusBadRequest == 400
StatusNotFound == 404
StatusInternalServerError == 500

\* time.Time{}: the creation time of a Post that was never read from the store.
ZeroTime == 0

----------------------------------------------------------------------------
(* models.Post and the rows of the schema *)

\* The zero value of models.Post.
NoPost == [id |-> 0, title |-> "", content |-> "", tags |-> <<>>,
           created_at |-> ZeroTime, related_posts |-> {}]

\* A row of posts as a models.Post (RETURNING id, title, content, tags, created_at).
RowPost(row) == [id |-> row.id, title |-> row.title, content |-> row.content,
                 tags |-> row.tags, created_at |-> row.created_at,
                 related_posts |-> {}]

\* created_at TIMESTAMP DEFAULT NOW(): the time of the insert.  Inserts are
\* ordered by their identifiers, and the id stands for the instant.
Now(id) == id

\* The sample data of the migration: five posts, and no activity_logs row.
SeedData == <<
  [title |-> "Getting Started with Go", content |-> "Go is a statically typed, compiled programming language designed at Google.",
   tags |-> << <<"golang">>, <<"programming">>, <<"backend">> >>],
  [title |-> "Understanding Redis", content |-> "Redis is an in-memory data structure store, used as a database, cache, and message broker.",
   tags |-> << <<"redis">>, <<"cache">>, <<"database">> >>],
  [title |-> "Elasticsearch Guide", content |-> "Elasticsearch is a distributed, RESTful search and analytics engine.",
   tags |-> << <<"elasticsearch">>, <<"search">>, <<"database">> >>],
  [title |-> "PostgreSQL Best Practices", content |-> "PostgreSQL is a powerful, open source object-relational database system.",
   tags |-> << <<"postgresql">>, <<"database">>, <<"sql">> >>],
  [title |-> "Docker for Development", content |-> "Docker is a platform for developing, shipping, and running applications in containers.",
   tags |-> << <<"docker">>, <<"devops">>, <<"containers">> >>] >>

SeedPosts == [id \in 1..NumSeedPosts |->
                [id |-> id, title |-> SeedData[id].title, content |-> SeedData[id].content,
                 tags |-> SeedData[id].tags, created_at |-> Now(id)]]

\* json.Marshal(post): the fields of the struct, related_posts being left
\* out when it is empty (omitempty).
MarshalPost(post) ==
    IF post.related_posts = {}
    THEN [id |-> post.id, title |-> post.title, content |-> post.content,
          tags |-> post.tags, created_at |-> post.created_at]
    ELSE post

\* json.Unmarshal(data, &post) into a zero Post: the fields the document has.
\* A decoding that loses the creation time, as of a field whose JSON name
\* differs between writer and reader.
UnmarshalWithoutTime(data) ==
    [id |-> data.id, title |-> data.title, content |-> data.content,
     tags |-> data.tags, created_at |-> ZeroTime,
     related_posts |-> IF "related_posts" \in DOMAIN data
                       THEN data.related_posts ELSE NoPost.related_posts]

UnmarshalPost(data) ==
    [id |-> data.id, title |-> data.title, content |-> data.content,
     tags |-> data.tags, created_at |-> data.created_at,
     related_posts |-> IF "related_posts" \in DOMAIN data
                       THEN data.related_posts ELSE NoPost.related_posts]

----------------------------------------------------------------------------
(* Tags: array_to_string(tags, ',') and strings.Split(s, ",") *)

RECURSIVE ArrayToString(_)
\* array_to_string(tags, ','): the elements joined by commas; '' for no element.
ArrayToString(tags) ==
    IF tags = <<>> THEN <<>>
    ELSE IF Len(tags) = 1 THEN Head(tags)
    ELSE Head(tags) \o <<",">> \o ArrayToString(Tail(tags))

RECURSIVE StringsSplit(_)
\* strings.Split(s, ","): the pieces between the commas; always one piece at least.
StringsSplit(s) ==
    IF \A i \in 1..Len(s) : s[i] # ","
    THEN <<s>>
    ELSE LET k == CHOOSE i \in 1..Len(s) :
                     s[i] = "," /\ \A j \in 1..(i - 1) : s[j] # ","
         IN  <<SubSeq(s, 1, k - 1)>> \o StringsSplit(SubSeq(s, k + 1, Len(s)))

\* GetPostByID's "Parse tags": tagsArray.String != "" ? Split : []string{}.
ParseTags(str) == IF str # <<>> THEN StringsSplit(str) ELSE <<>>

\* The text PostgreSQL sends for one element of a text[]: in double quotes
\* when the element is empty or holds a comma.
ElementOut(tag) ==
    IF tag = <<>> \/ \E i \in 1..Len(tag) : tag[i] = ","
    THEN <<"\"">> \o tag \o <<"\"">>
    ELSE tag

\* The text PostgreSQL sends for a text[] column: {e1,e2,...}.
ArrayOut(tags) ==
    <<"{">> \o ArrayToString([i \in 1..Len(tags) |-> ElementOut(tags[i])]) \o <<"}">>

RECURSIVE TrimLeft(_, _)
TrimLeft(s, cutset) ==
    IF s # <<>> /\ Head(s) \in cutset THEN TrimLeft(Tail(s), cutset) ELSE s

RECURSIVE TrimRight(_, _)
TrimRight(s, cutset) ==
    IF s # <<>> /\ s[Len(s)] \in cutset
    THEN TrimRight(SubSeq(s, 1, Len(s) - 1), cutset) ELSE s

\* strings.Trim(s, cutset).
StringsTrim(s, cutset) == TrimRight(TrimLeft(s, cutset), cutset)

RECURSIVE UnquotedParts(_)
\* for _, part := range parts: strings.Trim(part, "\""), kept when not empty.
UnquotedParts(parts) ==
    IF parts = <<>> THEN <<>>
    ELSE LET tag == StringsTrim(Head(parts), {"\""})
         IN  (IF tag # <<>> THEN <<tag>> ELSE <<>>) \o UnquotedParts(Tail(parts))

\* SearchPostsByTag's parsing of the tags column it scanned as a string.
ParseArrayText(str) ==
    IF str = <<>> THEN <<>>
    ELSE LET tagsStr == StringsTrim(str, {"{", "}"})
         IN  IF tagsStr # <<>> THEN UnquotedParts(StringsSplit(tagsStr)) ELSE <<>>

----------------------------------------------------------------------------
(* Finite maps *)

EmptyMap == [k \in {} |-> NoPost]
Put(f, k, v) == [x \in (DOMAIN f) \cup {k} |-> IF x = k THEN v ELSE f[x]]
Del(f, k) == [x \in (DOMAIN f) \ {k} |-> f[x]]
Get(f, k, default) == IF k \in DOMAIN f THEN f[k] ELSE default
Range(f) == { f[i] : i \in DOMAIN f }
Max(S) == CHOOSE m \in S : \A x \in S : x <= m
\* The orders in which the elements of a finite set can be listed.
Orders(S) == { o \in [1..Cardinality(S) -> S] :
                 \A i, j \in 1..Cardinality(S) : o[i] = o[j] => i = j }

----------------------------------------------------------------------------
(* The requests a client sends *)

\* The k-th request of a behaviour sends its own title and content, so that
\* the value a read returns names the write it comes from.
TitleOf(rid) == "T" \o ToString(rid)
ContentOf(rid) == "C" \o ToString(rid)

\* The tag arrays sent: none, and a tag that holds a comma followed by a
\* plain tag that a post of the sample data has too.
TagInputs == { <<>>, << <<"a", ",", "b">>, <<"golang">> >> }

\* The request bodies the handlers tell apart: a complete one, with each tag
\* array, and one with no title and one with no content.
Bodies == { [shape |-> "ok", tags |-> t] : t \in TagInputs }
          \cup { [shape |-> "no_title", tags |-> <<>>],
                 [shape |-> "no_content", tags |-> <<>>] }

\* The ids GET and PUT address: a post of the sample data, and the id the
\* first created post receives (no row has it before that post is committed).
TargetIds == {1, NumSeedPosts + 1}

\* The arguments GetRelatedPosts is called with by itself: the id of a
\* document and the id of none; no tag, tags that documents have, a tag
\* with a comma, and a tag that no document has.
RelatedIds == {1, RelatedSize + 3}
RelatedTags == { <<>>, << <<"golang">>, <<"backend">> >>, << <<"a", ",", "b">> >>,
                 << <<"a">> >> }

\* The tags of the documents the index is filled with.
DocTags(id) ==
    IF id = 3 THEN << <<"redis">> >>
    ELSE IF id = 4 THEN << <<"a", ",", "b">>, <<"golang">> >>
    ELSE << <<"golang">>, <<"programming">> >>

\* The ids of the documents the index is filled with: enough of them for a
\* search to have more hits than the "size" of the query.
DocIds == 1..(RelatedSize + 2)

\* The states of the index "posts" GetRelatedPosts is called in: the
\* documents of any of the DocIds.
IndexStates ==
    { [id \in S |-> [id |-> id, title |-> TitleOf(id), content |-> ContentOf(id),
                      tags |-> DocTags(id), created_at |-> Now(id)]] :
        S \in SUBSET DocIds }

\* The tag parameters of GET /posts/search-by-tag: none, a tag that posts of
\* the sample data and written posts have, and a tag that holds a comma.
TagQueries == { <<>>, <<"golang">>, <<"a", ",", "b">> }

\* The q parameters of GET /posts/search: none, the title the first request
\* writes, and the content it writes in lower case.
TextQueries == { "", "T1", "c1" }

NewReq(kind, id, rid, body) ==
    [kind |-> kind, pc |-> "start", id |-> id,
     title |-> IF body.shape = "no_title" THEN "" ELSE TitleOf(rid),
     content |-> IF body.shape = "no_content" THEN "" ELSE ContentOf(rid),
     tags |-> body.tags,
     q |-> <<>>,               \* the tag or the query of a search request
     result |-> <<>>,          \* the posts a search answers with
     post |-> NoPost,          \* the handler's post / cachedPost / newPost
     txlog |-> 0,              \* id of the activity_logs row the open transaction holds, 0 for none
     status |-> 0,             \* the status of the response, 0 while undecided
     log |-> {},               \* what the request has logged
     floor |-> 0]              \* history: newest write acknowledged before the request started

\* A validation that looks at the title only.
MissingTitle(r) == r.title = ""

\* if req.Title == "" || req.Content == "": "Title and content are required".
MissingField(r) == r.title = "" \/ r.content = ""

\* The handler is about to write its response: http.Error(w, ..., status),
\* or the success response.
Answer(r, status, lines) ==
    [r EXCEPT !.pc = "respond", !.status = status, !.log = @ \cup lines]

\* The request that sent a title, 0 for a title of the sample data.  The rows
\* of one id are written in the order of the request numbers (an update
\* writes in the step it starts in, and after the creation of its post), so
\* of two values of a row the newer has the greater writer.
WriterOf(title) ==
    IF \E k \in 1..started : TitleOf(k) = title
    THEN CHOOSE k \in 1..started : TitleOf(k) = title
    ELSE 0

----------------------------------------------------------------------------
(* func main *)

\* The handles main opens that have a Close: the *sql.DB of initDB and the
\* *redis.Client of initRedis (the Elasticsearch client has none).
Handles == {"db", "redisClient"}

\* main at its first statement: nothing opened, nothing closed.
Starting == [pc |-> "initDB", opened |-> {}, closed |-> [h \in Handles |-> 0]]

\* main in http.ListenAndServe, after the three stores were initialized.
Serving == [pc |-> "ListenAndServe", opened |-> Handles, closed |-> [h \in Handles |-> 0]]

\* log.Fatal(...): the message is logged and os.Exit(1) ends the process at
\* once; the functions deferred by main do not run.
Fatal(p) == [p EXCEPT !.pc = "exited"]

----------------------------------------------------------------------------
\* The service after start-up, with clients that will send n requests: the
\* database holds the sample data, Redis and the index "posts" are empty.
Start(n) ==
    /\ limit = n
    /\ posts = SeedPosts
    /\ activity_logs = {}
    /\ posts_id_seq = NumSeedPosts
    /\ logs_id_seq = 0
    /\ cache = EmptyMap
    /\ now = 0
    /\ expires = EmptyMap
    /\ process = Serving
    /\ index = EmptyMap
    /\ started = 0
    /\ reqs = EmptyMap
    /\ tasks = EmptyMap
    /\ acked = EmptyMap
    /\ invalidated = EmptyMap
    /\ task_failed = {}
    /\ faults = 0

Init == Start(MaxRequests)

----------------------------------------------------------------------------
(* Failures of the stores *)

\* The call of this step fails: the connection is lost, or the store answers
\* with an error.
CallFails == faults < MaxFaults /\ faults' = faults + 1
\* The call of this step succeeds.
CallSucceeds == faults' = faults

----------------------------------------------------------------------------
(* PostRepository *)

\* INSERT INTO posts ... RETURNING: the row the open transaction holds.
InsertedRow(id, r) ==
    [id |-> id, title |-> r.title, content |-> r.content, tags |-> r.tags,
     created_at |-> Now(id)]

\* The row of a Post held by a transaction (its related_posts dropped).
PostRow(p) == [id |-> p.id, title |-> p.title, content |-> p.content,
               tags |-> p.tags, created_at |-> p.created_at]

\* GetPostByID: SELECT id, title, content, array_to_string(tags, ','), created_at.
GetPostByID(id) ==
    [id |-> posts[id].id, title |-> posts[id].title, content |-> posts[id].content,
     tags |-> ParseTags(ArrayToString(posts[id].tags)),
     created_at |-> posts[id].created_at, related_posts |-> {}]

\* WHERE $1 = ANY(tags): the rows one of whose tags is the parameter.
MatchingIds(tag) ==
    { id \in DOMAIN posts : \E i \in 1..Len(posts[id].tags) : posts[id].tags[i] = tag }

\* The map SearchPostsByTag builds of a row: id, title and the parsed tags.
TagHit(row) == [id |-> row.id, title |-> row.title,
                tags |-> ParseArrayText(ArrayOut(row.tags))]

\* SearchPostsByTag when every row arrives: the matching rows, once each,
\* in the order the store sends them (the query has no ORDER BY).
SearchPostsByTag(tag) ==
    { [i \in 1..Cardinality(MatchingIds(tag)) |-> TagHit(posts[o[i]])] :
        o \in Orders(MatchingIds(tag)) }

\* SearchPostsByTag when the connection fails while the rows arrive:
\* rows.Next() returns false, rows.Err() is not looked at, and the rows read
\* so far are returned without an error.
TruncatedRows(tag) ==
    { SubSeq(res, 1, n) : res \in SearchPostsByTag(tag),
                          n \in 0..(Cardinality(MatchingIds(tag)) - 1) }

\* Two statements, UPDATE posts SET title and later UPDATE posts SET
\* content, tags: the row after the first of them.
UpdatedTitle(row, r) == [row EXCEPT !.title = r.title]

\* UPDATE posts SET title, content, tags WHERE id: the row after the update.
UpdatedRow(row, r) ==
    [row EXCEPT !.title = r.title, !.content = r.content, !.tags = r.tags]

\* An id computed from the committed rows, MAX(id) + 1, as a table without
\* a sequence would have it.
NextPostIdFromRows == Max(DOMAIN posts) + 1

\* nextval('posts_id_seq'): SERIAL ids come from a sequence, which is not
\* transactional: a value handed out is never handed out again.
NextPostId == posts_id_seq + 1

\* A log row that names the post the sequence handed out last, whichever
\* transaction drew it.
LogRowOfLastPost(logid, postid) ==
    [id |-> logid, action |-> "new_post", post_id |-> posts_id_seq]

\* The activity_logs row of CreatePostWithTransaction.
LogRow(logid, postid) == [id |-> logid, action |-> "new_post", post_id |-> postid]

\* tx.Commit(): the rows of the transaction become visible, all at once.
CommitPosts(r) == Put(posts, r.id, PostRow(r.post))
\* A commit that loses the log row: the log was not written in the transaction.
CommitWithoutLog(r) == activity_logs
CommitLogs(r) == activity_logs \cup {LogRow(r.txlog, r.id)}

\* An error return without tx.Rollback(): the transaction stays open and
\* holds its rows.
LeftOpen(r) == r

\* defer tx.Rollback() on an error return: the transaction's rows are dropped.
RolledBack(r) == [r EXCEPT !.post = NoPost, !.txlog = 0]

----------------------------------------------------------------------------
(* Background goroutines *)

\* go func() { h.search.IndexPost(post) }(): the task holds the created post.
IndexTask(r) == [kind |-> "index", pc |-> "index", id |-> r.id, post |-> r.post,
                 retries |-> 0]
\* go func() { post := h.repo.GetPostByID(id); h.search.IndexPost(post) }().
ReindexTask(r) == [kind |-> "reindex", pc |-> "fetch", id |-> r.id, post |-> NoPost,
                   retries |-> 0]

----------------------------------------------------------------------------
(* ElasticSearch *)

\* The document IndexPost sends: id, title, content, tags, created_at.
Doc(post) == [id |-> post.id, title |-> post.title, content |-> post.content,
              tags |-> post.tags, created_at |-> post.created_at]

\* A partial update of the document (POST posts/_update/id with the title and
\* the content): the tags of an existing document stay.
IndexPostMerged(post) ==
    IF post.id \in DOMAIN index
    THEN [index EXCEPT ![post.id].title = post.title, ![post.id].content = post.content]
    ELSE Put(index, post.id, Doc(post))

\* esapi.IndexRequest{Index: "posts", DocumentID: docID, Body: docJSON}: the
\* index after the request, the document stored whole under the post's id.
IndexPost(post) == Put(index, post.id, Doc(post))

\* models.Related of a hit.
Related(doc) == [id |-> doc.id, title |-> doc.title, tags |-> doc.tags]

\* A bool query without the must_not clause: every document with one of the tags.
HitsWithSelf(currentPostID, tags) ==
    { d \in Range(index) : \E i \in DOMAIN tags : tags[i] \in Range(d.tags) }

\* The documents the bool query of GetRelatedPosts matches: one of the tags
\* at least (should, minimum_should_match 1), and not the current post (must_not).
RelatedHits(currentPostID, tags) ==
    { d \in Range(index) : /\ d.id # currentPostID
                           /\ \E i \in DOMAIN tags : tags[i] \in Range(d.tags) }

\* A query without "size": every hit is returned.
GetRelatedPostsUnsized(currentPostID, tags) ==
    { { Related(d) : d \in RelatedHits(currentPostID, tags) } }

\* What GetRelatedPosts can return when the search answers: "size": 5 of the hits.
GetRelatedPosts(currentPostID, tags) ==
    LET hits == RelatedHits(currentPostID, tags)
        n == IF Cardinality(hits) < RelatedSize THEN Cardinality(hits) ELSE RelatedSize
    IN  { { Related(d) : d \in H } : H \in { G \in SUBSET hits : Cardinality(G) = n } }

\* A call of GetRelatedPosts by itself: no query for no tag, else the
\* search, which answers, or fails: the error is logged and the list empty.
GetRelatedPosts_Call(currentPostID, tags) ==
    /\ started < limit
    /\ started' = started + 1
    /\ LET rid == started + 1
           r == [NewReq("related", currentPostID, rid, [shape |-> "ok", tags |-> tags])
                    EXCEPT !.title = "", !.content = "", !.pc = "return"]
       IN  \/ /\ tags = <<>>
              /\ faults' = faults
              /\ reqs' = Put(reqs, rid, r)
           \/ /\ tags # <<>>
              /\ CallSucceeds
              /\ \E related \in GetRelatedPosts(currentPostID, tags) :
                    reqs' = Put(reqs, rid, [r EXCEPT !.post.related_posts = related])
           \/ /\ tags # <<>>
              /\ CallFails
              /\ reqs' = Put(reqs, rid, [r EXCEPT !.log = {"Error searching related posts"}])
    /\ UNCHANGED <<process, now, expires, posts, activity_logs, posts_id_seq, logs_id_seq, cache, index,
                   limit, tasks, acked, invalidated, task_failed>>

\* GetRelatedPosts returns to its caller.
GetRelatedPosts_Return(rid) ==
    /\ reqs[rid].kind = "related" /\ reqs[rid].pc = "return"
    /\ reqs' = Del(reqs, rid)
    /\ UNCHANGED <<process, now, expires, posts, activity_logs, posts_id_seq, logs_id_seq, cache, index,
                   limit, started, tasks, acked, invalidated, task_failed, faults>>

\* The analyzer of the text fields title and content (mapping "type": "text")
\* and of the query: the words in lower case.  The texts written by the
\* requests are one word each, "T3" giving the term "t3".
Analyze(text) ==
    IF text = "" THEN {}
    ELSE IF \E k \in 1..limit : text = TitleOf(k)
         THEN { "t" \o ToString(CHOOSE k \in 1..limit : text = TitleOf(k)) }
    ELSE IF \E k \in 1..limit : text = ContentOf(k)
         THEN { "c" \o ToString(CHOOSE k \in 1..limit : text = ContentOf(k)) }
    ELSE { text }

\* A query on the title alone, "fields": ["title"].
MatchedTitle(doc, query) ==
    { f \in {"title"} : Analyze(doc[f]) \cap Analyze(query) # {} }

\* The fields of the multi_match query, "fields": ["title", "content"], in
\* which a document has a term of the query.
MatchedFields(doc, query) ==
    { f \in {"title", "content"} : Analyze(doc[f]) \cap Analyze(query) # {} }

\* A hit of SearchPosts: the _source of the document with its _score added.
\* (The score stands for the engine's relevance: positive for every hit.)
TextHit(doc, query) ==
    [id |-> doc.id, title |-> doc.title, content |-> doc.content, tags |-> doc.tags,
     created_at |-> doc.created_at, score |-> Cardinality(MatchedFields(doc, query))]

\* The documents the multi_match query matches.
TextHits(query) == { d \in Range(index) : MatchedFields(d, query) # {} }

\* What SearchPosts can return when the search answers: the hits, in the
\* order of the engine's ranking.
SearchPosts(query) ==
    { [i \in 1..Cardinality(TextHits(query)) |-> TextHit(o[i], query)] :
        o \in Orders(TextHits(query)) }

----------------------------------------------------------------------------
(* PostHandler.CreatePost *)

\* Decode, validate, and repo.CreatePostWithTransaction up to db.Begin().
CreatePost_Begin(body) ==
    /\ started < limit
    /\ started' = started + 1
    /\ LET rid == started + 1
           r == NewReq("create", 0, rid, body)
       IN  IF MissingField(r)
           THEN /\ reqs' = Put(reqs, rid, Answer(r, StatusBadRequest, {}))
                /\ faults' = faults
           ELSE \/ /\ CallSucceeds
                   /\ reqs' = Put(reqs, rid, [r EXCEPT !.pc = "insert_post"])
                \/ /\ CallFails
                   /\ reqs' = Put(reqs, rid, Answer(r, StatusInternalServerError,
                                                    {"Failed to create post"}))
    /\ UNCHANGED <<process, now, expires, posts, activity_logs, posts_id_seq, logs_id_seq, cache, index,
                   limit, tasks, acked, invalidated, task_failed>>

\* tx.QueryRow(INSERT INTO posts ... RETURNING ...).Scan(&newPost...).
\* A failed insert may have drawn its id from the sequence already.
CreatePost_InsertPost(rid) ==
    /\ reqs[rid].kind = "create" /\ reqs[rid].pc = "insert_post"
    /\ LET r == reqs[rid] IN
       \/ /\ CallSucceeds
          /\ posts_id_seq' = NextPostId
          /\ reqs' = Put(reqs, rid, [r EXCEPT !.pc = "insert_log", !.id = NextPostId,
                                         !.post = RowPost(InsertedRow(NextPostId, r))])
       \/ /\ CallFails
          /\ posts_id_seq' \in {posts_id_seq, NextPostId}
          /\ reqs' = Put(reqs, rid, Answer(RolledBack(r), StatusInternalServerError,
                                           {"Failed to create post"}))
    /\ UNCHANGED <<process, now, expires, posts, activity_logs, logs_id_seq, cache, index, limit, started, tasks,
                   acked, invalidated, task_failed>>

\* tx.Exec(INSERT INTO activity_logs (action, post_id) VALUES ('new_post', id)).
CreatePost_InsertLog(rid) ==
    /\ reqs[rid].kind = "create" /\ reqs[rid].pc = "insert_log"
    /\ LET r == reqs[rid] IN
       \/ /\ CallSucceeds
          /\ logs_id_seq' = logs_id_seq + 1
          /\ reqs' = Put(reqs, rid, [r EXCEPT !.pc = "commit", !.txlog = logs_id_seq + 1])
       \/ /\ CallFails
          /\ logs_id_seq' = logs_id_seq
          /\ reqs' = Put(reqs, rid, Answer(RolledBack(r), StatusInternalServerError,
                                           {"Failed to create post"}))
    /\ UNCHANGED <<process, now, expires, posts, activity_logs, posts_id_seq, cache, index, limit, started, tasks,
                   acked, invalidated, task_failed>>

\* tx.Commit(), and on success the handler's go func() of the indexing.
\* (The goroutine does nothing before its own first step, so launching it
\* in the step of the commit loses no interleaving.)
CreatePost_Commit(rid) ==
    /\ reqs[rid].kind = "create" /\ reqs[rid].pc = "commit"
    /\ LET r == reqs[rid] IN
       \/ /\ CallSucceeds
          /\ posts' = CommitPosts(r)
          /\ activity_logs' = CommitLogs(r)
          /\ tasks' = Put(tasks, rid, IndexTask(r))
          /\ reqs' = Put(reqs, rid, Answer([r EXCEPT !.txlog = 0], StatusCreated, {}))
       \/ /\ CallFails
          /\ reqs' = Put(reqs, rid, Answer(RolledBack(r), StatusInternalServerError,
                                           {"Failed to create post"}))
          /\ UNCHANGED <<posts, activity_logs, tasks>>
    /\ UNCHANGED <<process, now, expires, posts_id_seq, logs_id_seq, cache, index, limit, started, acked,
                   invalidated, task_failed>>

\* A handler that indexes before it answers: the response waits for the
\* goroutine of the request to return.
CreatePost_RespondAfterIndexing(rid) ==
    /\ reqs[rid].kind = "create" /\ reqs[rid].pc = "respond"
    /\ rid \notin DOMAIN tasks
    /\ reqs' = Del(reqs, rid)
    /\ UNCHANGED <<process, now, expires, posts, activity_logs, posts_id_seq, logs_id_seq, cache, index,
                   limit, started, tasks, acked, invalidated, task_failed, faults>>

\* The response is written: http.Error(w, ...), or w.WriteHeader(http.StatusCreated)
\* and json.NewEncoder(w).Encode(post).
\* A write-through handler: it caches the post it has created.
CreatePost_RespondCached(rid) ==
    /\ reqs[rid].kind = "create" /\ reqs[rid].pc = "respond"
    /\ reqs' = Del(reqs, rid)
    /\ IF reqs[rid].status = StatusCreated
       THEN /\ cache' = Put(cache, reqs[rid].post.id, MarshalPost(reqs[rid].post))
            /\ expires' = Put(expires, reqs[rid].post.id, now + CacheTTLMinutes)
       ELSE UNCHANGED <<cache, expires>>
    /\ UNCHANGED <<process, now, posts, activity_logs, posts_id_seq, logs_id_seq, index,
                   limit, started, tasks, acked, invalidated, task_failed, faults>>

CreatePost_Respond(rid) ==
    /\ reqs[rid].kind = "create" /\ reqs[rid].pc = "respond"
    /\ reqs' = Del(reqs, rid)
    /\ UNCHANGED <<process, now, expires, posts, activity_logs, posts_id_seq, logs_id_seq, cache, index,
                   limit, started, tasks, acked, invalidated, task_failed, faults>>

----------------------------------------------------------------------------
(* PostHandler.GetPost *)

\* h.cache.GetPost(id): a hit, a clean miss (redis.Nil) or an error; an error
\* is logged and the handler goes on as after a miss.
GetPost_CacheGet(id) ==
    /\ started < limit
    /\ started' = started + 1
    /\ LET rid == started + 1
           r == [NewReq("get", id, rid, [shape |-> "ok", tags |-> <<>>]) EXCEPT
                    !.title = "", !.content = "", !.floor = Get(acked, id, 0)]
       IN  \/ /\ CallSucceeds
              /\ id \in DOMAIN cache
              /\ reqs' = Put(reqs, rid, [r EXCEPT !.pc = "augment",
                                                  !.post = UnmarshalPost(cache[id]),
                                                  !.log = {"Cache hit"}])
           \/ /\ CallSucceeds
              /\ id \notin DOMAIN cache
              /\ reqs' = Put(reqs, rid, [r EXCEPT !.pc = "db_get", !.log = {"Cache miss"}])
           \/ /\ CallFails
              /\ reqs' = Put(reqs, rid, [r EXCEPT !.pc = "db_get",
                                                  !.log = {"Cache error", "Cache miss"}])
    /\ UNCHANGED <<process, now, expires, posts, activity_logs, posts_id_seq, logs_id_seq, cache, index,
                   limit, tasks, acked, invalidated, task_failed>>

\* A handler with negative caching: it stores an empty entry for an id that
\* has no row.
GetPost_StoreGetNegative(rid) ==
    /\ reqs[rid].kind = "get" /\ reqs[rid].pc = "db_get"
    /\ LET r == reqs[rid] IN
       \/ /\ CallSucceeds
          /\ r.id \notin DOMAIN posts
          /\ cache' = Put(cache, r.id, MarshalPost([NoPost EXCEPT !.id = r.id]))
          /\ expires' = Put(expires, r.id, now + CacheTTLMinutes)
          /\ reqs' = Put(reqs, rid, Answer(r, StatusNotFound, {}))
       \/ /\ CallSucceeds
          /\ r.id \in DOMAIN posts
          /\ UNCHANGED <<cache, expires>>
          /\ reqs' = Put(reqs, rid, [r EXCEPT !.pc = "cache_set", !.post = GetPostByID(r.id)])
       \/ /\ CallFails
          /\ UNCHANGED <<cache, expires>>
          /\ reqs' = Put(reqs, rid, Answer(r, StatusInternalServerError,
                                           {"Failed to get post"}))
    /\ UNCHANGED <<process, now, posts, activity_logs, posts_id_seq, logs_id_seq, index,
                   limit, started, tasks, acked, invalidated, task_failed>>

\* h.repo.GetPostByID(id) after a miss: 404, 500 or the post.
GetPost_StoreGet(rid) ==
    /\ reqs[rid].kind = "get" /\ reqs[rid].pc = "db_get"
    /\ LET r == reqs[rid] IN
       \/ /\ CallSucceeds
          /\ r.id \notin DOMAIN posts
          /\ reqs' = Put(reqs, rid, Answer(r, StatusNotFound, {}))
       \/ /\ CallSucceeds
          /\ r.id \in DOMAIN posts
          /\ reqs' = Put(reqs, rid, [r EXCEPT !.pc = "cache_set", !.post = GetPostByID(r.id)])
       \/ /\ CallFails
          /\ reqs' = Put(reqs, rid, Answer(r, StatusInternalServerError,
                                           {"Failed to get post"}))
    /\ UNCHANGED <<process, now, expires, posts, activity_logs, posts_id_seq, logs_id_seq, cache, index,
                   limit, started, tasks, acked, invalidated, task_failed>>

\* SET key value KEEPTTL: a write that leaves the TTL of an existing key as
\* it is.
ExpiryKeptOnSet(id) ==
    IF id \in DOMAIN expires THEN expires[id] ELSE now + CacheTTLMinutes

\* c.client.Set(c.ctx, cacheKey, data, ttl) with the ttl of 5*time.Minute
\* that GetPost hands to SetPost: the key, new or not, runs out ttl from now.
ExpiryAfterSet(id) == now + CacheTTLMinutes

\* A handler that gives up when the post cannot be cached.
FailOnSetError(r) ==
    Answer(r, StatusInternalServerError, {"Failed to cache post"})

\* if err := h.cache.SetPost(...); err != nil { log.Printf("Failed to cache post") }:
\* the handler goes on to the related posts.
AfterSetError(r) == [r EXCEPT !.pc = "augment", !.log = @ \cup {"Failed to cache post"}]

\* h.cache.SetPost(post, 5*time.Minute); an error is logged.
GetPost_CacheSet(rid) ==
    /\ reqs[rid].kind = "get" /\ reqs[rid].pc = "cache_set"
    /\ LET r == reqs[rid] IN
       \/ /\ CallSucceeds
          /\ cache' = Put(cache, r.post.id, MarshalPost(r.post))
          /\ expires' = Put(expires, r.post.id, ExpiryAfterSet(r.post.id))
          /\ reqs' = Put(reqs, rid, [r EXCEPT !.pc = "augment"])
       \/ /\ CallFails
          /\ UNCHANGED <<cache, expires>>
          /\ reqs' = Put(reqs, rid, AfterSetError(r))
    /\ UNCHANGED <<process, now, posts, activity_logs, posts_id_seq, logs_id_seq, index, limit, started,
                   tasks, acked, invalidated, task_failed>>

\* A handler that gives up when the related posts cannot be searched.
FailOnRelatedError(r) ==
    Answer(r, StatusInternalServerError, {"Error searching related posts"})

\* GetRelatedPosts logs the failure of its search and returns
\* []models.Related{}, which the handler assigns and answers with.
AfterRelatedError(r) ==
    Answer([r EXCEPT !.post.related_posts = {}], StatusOK,
           {"Error searching related posts"})

\* A handler that caches the post once more after the related posts are in it.
GetPost_AugmentThenCache(rid) ==
    /\ reqs[rid].kind = "get" /\ reqs[rid].pc = "augment"
    /\ LET r == reqs[rid] IN
       \E related \in GetRelatedPosts(r.post.id, r.post.tags) :
          /\ faults' = faults
          /\ reqs' = Put(reqs, rid, Answer([r EXCEPT !.post.related_posts = related],
                                           StatusOK, {}))
          /\ cache' = Put(cache, r.post.id,
                          MarshalPost([r.post EXCEPT !.related_posts = related]))
          /\ expires' = Put(expires, r.post.id, ExpiryAfterSet(r.post.id))
    /\ UNCHANGED <<process, now, posts, activity_logs, posts_id_seq, logs_id_seq, index,
                   limit, started, tasks, acked, invalidated, task_failed>>

\* post.RelatedPosts = h.search.GetRelatedPosts(post.ID, post.Tags), on the
\* hit path and on the miss path: no query for no tag, and an empty list when
\* the search fails.
GetPost_Augment(rid) ==
    /\ reqs[rid].kind = "get" /\ reqs[rid].pc = "augment"
    /\ LET r == reqs[rid] IN
       \/ /\ r.post.tags = <<>>
          /\ faults' = faults
          /\ reqs' = Put(reqs, rid, Answer(r, StatusOK, {}))
       \/ /\ r.post.tags # <<>>
          /\ CallSucceeds
          /\ \E related \in GetRelatedPosts(r.post.id, r.post.tags) :
                reqs' = Put(reqs, rid, Answer([r EXCEPT !.post.related_posts = related],
                                              StatusOK, {}))
       \/ /\ r.post.tags # <<>>
          /\ CallFails
          /\ reqs' = Put(reqs, rid, AfterRelatedError(r))
    /\ UNCHANGED <<process, now, expires, posts, activity_logs, posts_id_seq, logs_id_seq, cache, index,
                   limit, started, tasks, acked, invalidated, task_failed>>

\* The response is written: http.Error(w, ...) or json.NewEncoder(w).Encode(post).
GetPost_Respond(rid) ==
    /\ reqs[rid].kind = "get" /\ reqs[rid].pc = "respond"
    /\ reqs' = Del(reqs, rid)
    /\ UNCHANGED <<process, now, expires, posts, activity_logs, posts_id_seq, logs_id_seq, cache, index,
                   limit, started, tasks, acked, invalidated, task_failed, faults>>

\* The TTL of a key runs out.
Cache_Expire(id) ==
    /\ id \in DOMAIN cache
    /\ cache' = Del(cache, id)
    /\ expires' = Del(expires, id)
    /\ UNCHANGED <<process, now, posts, activity_logs, posts_id_seq, logs_id_seq, index, limit, started,
                   reqs, tasks, acked, invalidated, task_failed, faults>>

\* A minute passes on the Redis server: the keys whose TTL has run out are
\* gone.
Clock_Tick ==
    /\ now < MaxTime
    /\ now' = now + 1
    /\ LET live == { id \in DOMAIN cache : expires[id] > now + 1 }
       IN  /\ cache' = [id \in live |-> cache[id]]
           /\ expires' = [id \in live |-> expires[id]]
    /\ UNCHANGED <<process, posts, activity_logs, posts_id_seq, logs_id_seq, index, limit, started,
                   reqs, tasks, acked, invalidated, task_failed, faults>>

----------------------------------------------------------------------------
(* PostHandler.UpdatePost *)

\* UPDATE posts ... WHERE id = $4: the table after the statement.
UpdatedPosts(id, r) ==
    IF id \in DOMAIN posts THEN Put(posts, id, UpdatedRow(posts[id], r)) ELSE posts

\* result.RowsAffected(): the number of rows the UPDATE matched.
RowsAffected(id) == IF id \in DOMAIN posts THEN 1 ELSE 0

\* Decode, validate, and h.repo.UpdatePost(id, &req): 400, 500, 404 or the update.
UpdatePost_Update(id, body) ==
    /\ started < limit
    /\ started' = started + 1
    /\ LET rid == started + 1
           r == NewReq("update", id, rid, body)
       IN  IF MissingField(r)
           THEN /\ reqs' = Put(reqs, rid, Answer(r, StatusBadRequest, {}))
                /\ posts' = posts
                /\ faults' = faults
           ELSE \/ /\ CallFails
                   /\ reqs' = Put(reqs, rid, Answer(r, StatusInternalServerError,
                                                    {"Failed to update post"}))
                   /\ posts' = posts
                \/ /\ CallSucceeds
                   /\ RowsAffected(id) = 0
                   /\ reqs' = Put(reqs, rid, Answer(r, StatusNotFound, {}))
                   /\ posts' = posts
                \/ /\ CallSucceeds
                   /\ RowsAffected(id) # 0
                   /\ posts' = UpdatedPosts(id, r)
                   /\ reqs' = Put(reqs, rid, [r EXCEPT !.pc = "invalidate"])
    /\ UNCHANGED <<process, now, expires, activity_logs, posts_id_seq, logs_id_seq, cache, index, limit,
                   tasks, acked, invalidated, task_failed>>

\* A handler that answers without waiting for the invalidation: the
\* InvalidatePost is left to the goroutine it starts.
UpdatePost_InvalidateLater(rid) ==
    /\ reqs[rid].kind = "update" /\ reqs[rid].pc = "invalidate"
    /\ reqs' = Put(reqs, rid, Answer(reqs[rid], StatusOK, {}))
    /\ tasks' = Put(tasks, rid, ReindexTask(reqs[rid]))
    /\ UNCHANGED <<process, now, expires, posts, activity_logs, posts_id_seq, logs_id_seq, cache, index, limit,
                   started, acked, invalidated, task_failed, faults>>

\* h.cache.InvalidatePost(id), an error is logged; then the go func() of the
\* reindexing.  (The goroutine does nothing before its own first step, so
\* launching it in the step of the invalidation loses no interleaving.)
UpdatePost_Invalidate(rid) ==
    /\ reqs[rid].kind = "update" /\ reqs[rid].pc = "invalidate"
    /\ LET r == reqs[rid] IN
       /\ \/ /\ CallSucceeds
             /\ cache' = Del(cache, r.id)
             /\ expires' = Del(expires, r.id)
             /\ invalidated' = Put(invalidated, r.id, Max({Get(invalidated, r.id, 0), rid}))
             /\ reqs' = Put(reqs, rid, Answer(r, StatusOK, {"Cache invalidated"}))
          \/ /\ CallFails
             /\ UNCHANGED <<cache, expires, invalidated>>
             /\ reqs' = Put(reqs, rid, Answer(r, StatusOK, {"Failed to invalidate cache",
                                                            "Cache invalidated"}))
       /\ tasks' = Put(tasks, rid, ReindexTask(r))
    /\ UNCHANGED <<process, now, posts, activity_logs, posts_id_seq, logs_id_seq, index, limit, started,
                   acked, task_failed>>

\* The response is written: http.Error(w, ...) or the message
\* "Post updated successfully".
UpdatePost_Respond(rid) ==
    /\ reqs[rid].kind = "update" /\ reqs[rid].pc = "respond"
    /\ reqs' = Del(reqs, rid)
    /\ acked' = IF reqs[rid].status = StatusOK
                THEN Put(acked, reqs[rid].id, Max({Get(acked, reqs[rid].id, 0), rid}))
                ELSE acked
    /\ UNCHANGED <<process, now, expires, posts, activity_logs, posts_id_seq, logs_id_seq, cache, index,
                   limit, started, tasks, invalidated, task_failed, faults>>

----------------------------------------------------------------------------
(* updatePost of the single-file server (package main, func updatePost) *)

\* The Post decoded from the body, with post.ID = id: what the handler hands
\* to indexPostToElasticsearch.  It has no created_at.
BodyPost(r) == [id |-> r.id, title |-> r.title, content |-> r.content,
                tags |-> r.tags, created_at |-> ZeroTime, related_posts |-> {}]

\* Decode and db.Exec(UPDATE posts ... WHERE id = $4): the body is not
\* validated and the number of rows the statement matched is not read.
updatePost_Update(id, body) ==
    /\ started < limit
    /\ started' = started + 1
    /\ LET rid == started + 1
           r == NewReq("update", id, rid, body)
       IN  \/ /\ CallFails
              /\ reqs' = Put(reqs, rid, Answer(r, StatusInternalServerError, {}))
              /\ posts' = posts
           \/ /\ CallSucceeds
              /\ posts' = UpdatedPosts(id, r)
              /\ reqs' = Put(reqs, rid, [r EXCEPT !.pc = "invalidate"])
    /\ UNCHANGED <<process, now, expires, activity_logs, posts_id_seq, logs_id_seq, cache, index, limit,
                   tasks, acked, invalidated, task_failed>>

\* redisClient.Del(ctx, cacheKey), whose result is dropped, and
\* go indexPostToElasticsearch(post) with the post of the body.
updatePost_Invalidate(rid) ==
    /\ reqs[rid].kind = "update" /\ reqs[rid].pc = "invalidate"
    /\ LET r == reqs[rid] IN
       /\ \/ /\ CallSucceeds
             /\ cache' = Del(cache, r.id)
             /\ expires' = Del(expires, r.id)
             /\ invalidated' = Put(invalidated, r.id, Max({Get(invalidated, r.id, 0), rid}))
          \/ /\ CallFails
             /\ UNCHANGED <<cache, expires, invalidated>>
       /\ reqs' = Put(reqs, rid, Answer(r, StatusOK, {"Cache invalidated"}))
       /\ tasks' = Put(tasks, rid, IndexTask([r EXCEPT !.post = BodyPost(r)]))
    /\ UNCHANGED <<process, now, posts, activity_logs, posts_id_seq, logs_id_seq, index, limit, started,
                   acked, task_failed>>

\* The response is written: http.Error(w, ...) or the message
\* "Post updated successfully".
updatePost_Respond(rid) ==
    /\ reqs[rid].kind = "update" /\ reqs[rid].pc = "respond"
    /\ reqs' = Del(reqs, rid)
    /\ acked' = IF reqs[rid].status = StatusOK
                THEN Put(acked, reqs[rid].id, Max({Get(acked, reqs[rid].id, 0), rid}))
                ELSE acked
    /\ UNCHANGED <<process, now, expires, posts, activity_logs, posts_id_seq, logs_id_seq, cache, index, limit,
                   started, tasks, invalidated, task_failed, faults>>

----------------------------------------------------------------------------
(* getPost of the single-file server (package main, func getPost) *)

\* redisClient.Get(ctx, cacheKey).Result(): err == nil is a hit; redis.Nil
\* and every other error fall through to log.Printf("Cache miss ...").
getPost_CacheGet(id) ==
    /\ started < limit
    /\ started' = started + 1
    /\ LET rid == started + 1
           r == [NewReq("get", id, rid, [shape |-> "ok", tags |-> <<>>]) EXCEPT
                    !.title = "", !.content = "", !.floor = Get(acked, id, 0)]
       IN  \/ /\ CallSucceeds
              /\ id \in DOMAIN cache
              /\ reqs' = Put(reqs, rid, [r EXCEPT !.pc = "augment",
                                                  !.post = UnmarshalPost(cache[id]),
                                                  !.log = {"Cache hit"}])
           \/ /\ CallSucceeds
              /\ id \notin DOMAIN cache
              /\ reqs' = Put(reqs, rid, [r EXCEPT !.pc = "db_get", !.log = {"Cache miss"}])
           \/ /\ CallFails
              /\ reqs' = Put(reqs, rid, [r EXCEPT !.pc = "db_get", !.log = {"Cache miss"}])
    /\ UNCHANGED <<process, now, expires, posts, activity_logs, posts_id_seq, logs_id_seq, cache, index,
                   limit, tasks, acked, invalidated, task_failed>>

\* db.QueryRow(SELECT ... array_to_string(tags, ',') ...).Scan: 404 for
\* sql.ErrNoRows, 500 for another error, else the post with its tags split.
getPost_StoreGet(rid) ==
    /\ reqs[rid].kind = "get" /\ reqs[rid].pc = "db_get"
    /\ LET r == reqs[rid] IN
       \/ /\ CallSucceeds
          /\ r.id \notin DOMAIN posts
          /\ reqs' = Put(reqs, rid, Answer(r, StatusNotFound, {}))
       \/ /\ CallSucceeds
          /\ r.id \in DOMAIN posts
          /\ reqs' = Put(reqs, rid, [r EXCEPT !.pc = "cache_set", !.post = GetPostByID(r.id)])
       \/ /\ CallFails
          /\ reqs' = Put(reqs, rid, Answer(r, StatusInternalServerError, {}))
    /\ UNCHANGED <<process, now, expires, posts, activity_logs, posts_id_seq, logs_id_seq, cache, index,
                   limit, started, tasks, acked, invalidated, task_failed>>

\* redisClient.Set(ctx, cacheKey, postJSON, 5*time.Minute), whose result
\* is dropped.
getPost_CacheSet(rid) ==
    /\ reqs[rid].kind = "get" /\ reqs[rid].pc = "cache_set"
    /\ LET r == reqs[rid] IN
       /\ \/ /\ CallSucceeds
             /\ cache' = Put(cache, r.post.id, MarshalPost(r.post))
             /\ expires' = Put(expires, r.post.id, ExpiryAfterSet(r.post.id))
          \/ /\ CallFails
             /\ UNCHANGED <<cache, expires>>
       /\ reqs' = Put(reqs, rid, [r EXCEPT !.pc = "augment"])
    /\ UNCHANGED <<process, now, posts, activity_logs, posts_id_seq, logs_id_seq, index, limit, started,
                   tasks, acked, invalidated, task_failed>>

\* post.RelatedPosts = getRelatedPosts(post.ID, post.Tags), on the hit path
\* and on the miss path: no query for no tag, and an empty list, with the
\* error logged, when the search fails.
getPost_Augment(rid) ==
    /\ reqs[rid].kind = "get" /\ reqs[rid].pc = "augment"
    /\ LET r == reqs[rid] IN
       \/ /\ r.post.tags = <<>>
          /\ faults' = faults
          /\ reqs' = Put(reqs, rid, Answer(r, StatusOK, {}))
       \/ /\ r.post.tags # <<>>
          /\ CallSucceeds
          /\ \E related \in GetRelatedPosts(r.post.id, r.post.tags) :
                reqs' = Put(reqs, rid, Answer([r EXCEPT !.post.related_posts = related],
                                              StatusOK, {}))
       \/ /\ r.post.tags # <<>>
          /\ CallFails
          /\ reqs' = Put(reqs, rid, Answer([r EXCEPT !.post.related_posts = {}], StatusOK,
                                           {"Error searching related posts"}))
    /\ UNCHANGED <<process, now, expires, posts, activity_logs, posts_id_seq, logs_id_seq, cache, index,
                   limit, started, tasks, acked, invalidated, task_failed>>

\* The response is written: http.Error(w, ...) or json.NewEncoder(w).Encode(post).
getPost_Respond(rid) ==
    /\ reqs[rid].kind = "get" /\ reqs[rid].pc = "respond"
    /\ reqs' = Del(reqs, rid)
    /\ UNCHANGED <<process, now, expires, posts, activity_logs, posts_id_seq, logs_id_seq, cache, index,
                   limit, started, tasks, acked, invalidated, task_failed, faults>>

----------------------------------------------------------------------------
(* PostHandler.SearchByTag and PostHandler.SearchPosts *)

\* GET /posts/search-by-tag?tag=: 400 without a tag, else
\* h.repo.SearchPostsByTag(tag): 500, or the posts found.
SearchByTag_Query(tag) ==
    /\ started < limit
    /\ started' = started + 1
    /\ LET rid == started + 1
           r == [NewReq("search_by_tag", 0, rid, [shape |-> "ok", tags |-> <<>>]) EXCEPT
                    !.title = "", !.content = "", !.q = tag]
       IN  IF tag = <<>>
           THEN /\ reqs' = Put(reqs, rid, Answer(r, StatusBadRequest, {}))
                /\ faults' = faults
           ELSE \/ /\ CallSucceeds
                   /\ \E res \in SearchPostsByTag(tag) :
                         reqs' = Put(reqs, rid, Answer([r EXCEPT !.result = res],
                                                       StatusOK, {}))
                \/ /\ CallFails
                   /\ reqs' = Put(reqs, rid, Answer(r, StatusInternalServerError,
                                                    {"Failed to search posts by tag"}))
                \/ /\ CallFails
                   /\ \E res \in TruncatedRows(tag) :
                         reqs' = Put(reqs, rid, Answer([r EXCEPT !.result = res],
                                                       StatusOK, {}))
    /\ UNCHANGED <<process, now, expires, posts, activity_logs, posts_id_seq, logs_id_seq, cache, index,
                   limit, tasks, acked, invalidated, task_failed>>

\* The response is written: http.Error(w, ...) or the SearchResponse.
SearchByTag_Respond(rid) ==
    /\ reqs[rid].kind = "search_by_tag" /\ reqs[rid].pc = "respond"
    /\ reqs' = Del(reqs, rid)
    /\ UNCHANGED <<process, now, expires, posts, activity_logs, posts_id_seq, logs_id_seq, cache, index,
                   limit, started, tasks, acked, invalidated, task_failed, faults>>

\* A handler that answers with no post when the search fails.
EmptyOnSearchError(r) == Answer(r, StatusOK, {"Failed to search posts"})

\* if err != nil { log.Printf("Failed to search posts"); http.Error(w, ..., 500) }.
AfterSearchError(r) == Answer(r, StatusInternalServerError, {"Failed to search posts"})

\* GET /posts/search?q=: 400 without a query, else h.search.SearchPosts(query):
\* 500, or the posts found.
SearchPosts_Query(query) ==
    /\ started < limit
    /\ started' = started + 1
    /\ LET rid == started + 1
           r == [NewReq("search", 0, rid, [shape |-> "ok", tags |-> <<>>]) EXCEPT
                    !.title = "", !.content = "", !.q = query]
       IN  IF query = ""
           THEN /\ reqs' = Put(reqs, rid, Answer(r, StatusBadRequest, {}))
                /\ faults' = faults
           ELSE \/ /\ CallSucceeds
                   /\ \E res \in SearchPosts(query) :
                         reqs' = Put(reqs, rid, Answer([r EXCEPT !.result = res],
                                                       StatusOK, {}))
                \/ /\ CallFails
                   /\ reqs' = Put(reqs, rid, AfterSearchError(r))
    /\ UNCHANGED <<process, now, expires, posts, activity_logs, posts_id_seq, logs_id_seq, cache, index,
                   limit, tasks, acked, invalidated, task_failed>>

\* The response is written: http.Error(w, ...) or the SearchResponse.
SearchPosts_Respond(rid) ==
    /\ reqs[rid].kind = "search" /\ reqs[rid].pc = "respond"
    /\ reqs' = Del(reqs, rid)
    /\ UNCHANGED <<process, now, expires, posts, activity_logs, posts_id_seq, logs_id_seq, cache, index,
                   limit, started, tasks, acked, invalidated, task_failed, faults>>

----------------------------------------------------------------------------
(* The background goroutines *)

\* The reindexing goroutine's h.repo.GetPostByID(id); on an error it logs and returns.
Task_Fetch(rid) ==
    /\ tasks[rid].pc = "fetch"
    /\ \/ /\ CallSucceeds
          /\ tasks[rid].id \in DOMAIN posts
          /\ tasks' = [tasks EXCEPT ![rid].pc = "index",
                                    ![rid].post = GetPostByID(tasks[rid].id)]
          /\ task_failed' = task_failed
       \/ /\ CallFails
          /\ tasks' = Del(tasks, rid)
          /\ task_failed' = task_failed \cup {tasks[rid].id}
    /\ UNCHANGED <<process, now, expires, posts, activity_logs, posts_id_seq, logs_id_seq, cache, index,
                   limit, started, reqs, acked, invalidated>>

\* A goroutine whose IndexPost returned an error logs it and returns.
AfterIndexError(rid) == Del(tasks, rid)

\* The client's transport sends the request again after a failure its
\* configuration names (a lost connection, a status of RetryOnStatus), as long
\* as it has repeated it fewer than MaxRetries times.
RetryIndex(rid) ==
    /\ tasks[rid].retries < MaxRetries
    /\ tasks' = [tasks EXCEPT ![rid].retries = @ + 1]

\* h.search.IndexPost(post): one request of req.Do.  The document replaces
\* the one of the same id (Refresh: "true"); or the request fails, the index
\* is left as it was, and either the transport repeats the request or
\* IndexPost returns the error.
Task_Index(rid) ==
    /\ tasks[rid].pc = "index"
    /\ \/ /\ CallSucceeds
          /\ index' = IndexPost(tasks[rid].post)
          /\ tasks' = Del(tasks, rid)
          /\ task_failed' = task_failed
       \/ /\ CallFails
          /\ index' = index
          /\ RetryIndex(rid)
          /\ task_failed' = task_failed
       \/ /\ CallFails
          /\ index' = index
          /\ tasks' = AfterIndexError(rid)
          /\ task_failed' = task_failed \cup {tasks[rid].id}
    /\ UNCHANGED <<process, now, expires, posts, activity_logs, posts_id_seq, logs_id_seq, cache, limit, started,
                   reqs, acked, invalidated>>

----------------------------------------------------------------------------
(* func main: start-up and exit *)

\* db, err := initDB(): sql.Open fails and nothing is opened, or db.Ping
\* fails and initDB drops the *sql.DB it has opened, or the handle is
\* returned; main ends with log.Fatal after an error.
main_initDB ==
    /\ process.pc = "initDB"
    /\ \/ process' = Fatal(process)
       \/ process' = Fatal([process EXCEPT !.opened = @ \cup {"db"}])
       \/ process' = [process EXCEPT !.pc = "initRedis", !.opened = @ \cup {"db"}]
    /\ UNCHANGED <<posts, activity_logs, posts_id_seq, logs_id_seq, cache, index, limit,
                   started, reqs, tasks, acked, invalidated, task_failed, faults,
                   now, expires>>

\* redisClient, err := initRedis(): redis.NewClient, then Ping fails and
\* initRedis drops the client, or the client is returned.
main_initRedis ==
    /\ process.pc = "initRedis"
    /\ \/ process' = Fatal([process EXCEPT !.opened = @ \cup {"redisClient"}])
       \/ process' = [process EXCEPT !.pc = "initElasticsearch",
                                     !.opened = @ \cup {"redisClient"}]
    /\ UNCHANGED <<posts, activity_logs, posts_id_seq, logs_id_seq, cache, index, limit,
                   started, reqs, tasks, acked, invalidated, task_failed, faults,
                   now, expires>>

\* esClient, err := initElasticsearch(), then the services, CreateIndex
\* (an error is logged), the routes and http.ListenAndServe.
main_initElasticsearch ==
    /\ process.pc = "initElasticsearch"
    /\ \/ process' = Fatal(process)
       \/ process' = [process EXCEPT !.pc = "ListenAndServe"]
    /\ UNCHANGED <<posts, activity_logs, posts_id_seq, logs_id_seq, cache, index, limit,
                   started, reqs, tasks, acked, invalidated, task_failed, faults,
                   now, expires>>

\* log.Fatal(http.ListenAndServe(":"+port, r)): ListenAndServe returns only
\* with an error, at once (the port is taken) or while requests are served.
main_ListenAndServe ==
    /\ process.pc = "ListenAndServe"
    /\ process' = Fatal(process)
    /\ UNCHANGED <<posts, activity_logs, posts_id_seq, logs_id_seq, cache, index, limit,
                   started, reqs, tasks, acked, invalidated, task_failed, faults,
                   now, expires>>

----------------------------------------------------------------------------
Next ==
    \/ \E body \in Bodies : CreatePost_Begin(body)
    \/ \E rid \in DOMAIN reqs : CreatePost_InsertPost(rid)
    \/ \E rid \in DOMAIN reqs : CreatePost_InsertLog(rid)
    \/ \E rid \in DOMAIN reqs : CreatePost_Commit(rid)
    \/ \E rid \in DOMAIN reqs : CreatePost_Respond(rid)
    \/ \E id \in TargetIds : GetPost_CacheGet(id)
    \/ \E rid \in DOMAIN reqs : GetPost_StoreGet(rid)
    \/ \E rid \in DOMAIN reqs : GetPost_CacheSet(rid)
    \/ \E rid \in DOMAIN reqs : GetPost_Augment(rid)
    \/ \E rid \in DOMAIN reqs : GetPost_Respond(rid)
    \/ \E id \in TargetIds : Cache_Expire(id)
    \/ \E id \in TargetIds, body \in Bodies : UpdatePost_Update(id, body)
    \/ \E rid \in DOMAIN reqs : UpdatePost_Invalidate(rid)
    \/ \E rid \in DOMAIN reqs : UpdatePost_Respond(rid)
    \/ \E tag \in TagQueries : SearchByTag_Query(tag)
    \/ \E rid \in DOMAIN reqs : SearchByTag_Respond(rid)
    \/ \E query \in TextQueries : SearchPosts_Query(query)
    \/ \E rid \in DOMAIN reqs : SearchPosts_Respond(rid)
    \/ \E rid \in DOMAIN tasks : Task_Fetch(rid)
    \/ \E rid \in DOMAIN tasks : Task_Index(rid)

Spec == Init /\ [][Next]_vars

\* Clients that only create posts.
CreateNext ==
    \/ \E body \in Bodies : CreatePost_Begin(body)
    \/ \E rid \in DOMAIN reqs : CreatePost_InsertPost(rid)
    \/ \E rid \in DOMAIN reqs : CreatePost_InsertLog(rid)
    \/ \E rid \in DOMAIN reqs : CreatePost_Commit(rid)
    \/ \E rid \in DOMAIN reqs : CreatePost_Respond(rid)
    \/ \E rid \in DOMAIN tasks : Task_Index(rid)

SpecCreate == Init /\ [][CreateNext]_vars

\* Clients that only read and update posts.
ReadWriteNext ==
    \/ \E id \in TargetIds : GetPost_CacheGet(id)
    \/ \E rid \in DOMAIN reqs : GetPost_StoreGet(rid)
    \/ \E rid \in DOMAIN reqs : GetPost_CacheSet(rid)
    \/ \E rid \in DOMAIN reqs : GetPost_Augment(rid)
    \/ \E rid \in DOMAIN reqs : GetPost_Respond(rid)
    \/ \E id \in TargetIds : Cache_Expire(id)
    \/ \E id \in TargetIds, body \in Bodies : UpdatePost_Update(id, body)
    \/ \E rid \in DOMAIN reqs : UpdatePost_Invalidate(rid)
    \/ \E rid \in DOMAIN reqs : UpdatePost_Respond(rid)
    \/ \E rid \in DOMAIN tasks : Task_Fetch(rid)
    \/ \E rid \in DOMAIN tasks : Task_Index(rid)

SpecReadWrite == Init /\ [][ReadWriteNext]_vars

\* Clients that update posts and search them, by tag and by text.
SearchNext ==
    \/ \E id \in TargetIds, body \in Bodies : UpdatePost_Update(id, body)
    \/ \E rid \in DOMAIN reqs : UpdatePost_Invalidate(rid)
    \/ \E rid \in DOMAIN reqs : UpdatePost_Respond(rid)
    \/ \E tag \in TagQueries : SearchByTag_Query(tag)
    \/ \E rid \in DOMAIN reqs : SearchByTag_Respond(rid)
    \/ \E query \in TextQueries : SearchPosts_Query(query)
    \/ \E rid \in DOMAIN reqs : SearchPosts_Respond(rid)
    \/ \E rid \in DOMAIN tasks : Task_Fetch(rid)
    \/ \E rid \in DOMAIN tasks : Task_Index(rid)

SpecSearch == Init /\ [][SearchNext]_vars

\* Clients that read, update and search posts.
ServeNext ==
    \/ ReadWriteNext
    \/ \E tag \in TagQueries : SearchByTag_Query(tag)
    \/ \E rid \in DOMAIN reqs : SearchByTag_Respond(rid)
    \/ \E query \in TextQueries : SearchPosts_Query(query)
    \/ \E rid \in DOMAIN reqs : SearchPosts_Respond(rid)

SpecServe == Init /\ [][ServeNext]_vars

\* Clients that only write: they create and update posts.
WriteNext ==
    \/ \E body \in Bodies : CreatePost_Begin(body)
    \/ \E rid \in DOMAIN reqs : CreatePost_InsertPost(rid)
    \/ \E rid \in DOMAIN reqs : CreatePost_InsertLog(rid)
    \/ \E rid \in DOMAIN reqs : CreatePost_Commit(rid)
    \/ \E rid \in DOMAIN reqs : CreatePost_Respond(rid)
    \/ \E id \in TargetIds, body \in Bodies : UpdatePost_Update(id, body)
    \/ \E rid \in DOMAIN reqs : UpdatePost_Invalidate(rid)
    \/ \E rid \in DOMAIN reqs : UpdatePost_Respond(rid)
    \/ \E rid \in DOMAIN tasks : Task_Fetch(rid)
    \/ \E rid \in DOMAIN tasks : Task_Index(rid)

SpecWrite == Init /\ [][WriteNext]_vars

\* The single-file server under clients that update posts.  Its goroutine
\* indexPostToElasticsearch sends the esapi.IndexRequest of IndexPost, through
\* a client with the default retries.
MonolithNext ==
    \/ \E id \in TargetIds, body \in Bodies : updatePost_Update(id, body)
    \/ \E rid \in DOMAIN reqs : updatePost_Invalidate(rid)
    \/ \E rid \in DOMAIN reqs : updatePost_Respond(rid)
    \/ \E rid \in DOMAIN tasks : Task_Index(rid)

SpecMonolith == Init /\ [][MonolithNext]_vars

\* The single-file server under clients that read posts.
MonolithReadNext ==
    \/ \E id \in TargetIds : getPost_CacheGet(id)
    \/ \E rid \in DOMAIN reqs : getPost_StoreGet(rid)
    \/ \E rid \in DOMAIN reqs : getPost_CacheSet(rid)
    \/ \E rid \in DOMAIN reqs : getPost_Augment(rid)
    \/ \E rid \in DOMAIN reqs : getPost_Respond(rid)
    \/ \E id \in TargetIds : Cache_Expire(id)

SpecMonolithRead == Init /\ [][MonolithReadNext]_vars

\* Clients that create and read posts.
CreateReadNext ==
    \/ \E body \in Bodies : CreatePost_Begin(body)
    \/ \E rid \in DOMAIN reqs : CreatePost_InsertPost(rid)
    \/ \E rid \in DOMAIN reqs : CreatePost_InsertLog(rid)
    \/ \E rid \in DOMAIN reqs : CreatePost_Commit(rid)
    \/ \E rid \in DOMAIN reqs : CreatePost_Respond(rid)
    \/ \E rid \in DOMAIN tasks : Task_Index(rid)
    \/ \E id \in TargetIds : GetPost_CacheGet(id)
    \/ \E rid \in DOMAIN reqs : GetPost_StoreGet(rid)
    \/ \E rid \in DOMAIN reqs : GetPost_CacheSet(rid)
    \/ \E rid \in DOMAIN reqs : GetPost_Augment(rid)
    \/ \E rid \in DOMAIN reqs : GetPost_Respond(rid)
    \/ \E id \in TargetIds : Cache_Expire(id)

SpecCreateRead == Init /\ [][CreateReadNext]_vars

\* Clients of all five endpoints, in the time before any background goroutine
\* is scheduled.
HandlersNext ==
    \/ \E body \in Bodies : CreatePost_Begin(body)
    \/ \E rid \in DOMAIN reqs : CreatePost_InsertPost(rid)
    \/ \E rid \in DOMAIN reqs : CreatePost_InsertLog(rid)
    \/ \E rid \in DOMAIN reqs : CreatePost_Commit(rid)
    \/ \E rid \in DOMAIN reqs : CreatePost_Respond(rid)
    \/ \E id \in TargetIds : GetPost_CacheGet(id)
    \/ \E rid \in DOMAIN reqs : GetPost_StoreGet(rid)
    \/ \E rid \in DOMAIN reqs : GetPost_CacheSet(rid)
    \/ \E rid \in DOMAIN reqs : GetPost_Augment(rid)
    \/ \E rid \in DOMAIN reqs : GetPost_Respond(rid)
    \/ \E id \in TargetIds : Cache_Expire(id)
    \/ \E id \in TargetIds, body \in Bodies : UpdatePost_Update(id, body)
    \/ \E rid \in DOMAIN reqs : UpdatePost_Invalidate(rid)
    \/ \E rid \in DOMAIN reqs : UpdatePost_Respond(rid)
    \/ \E tag \in TagQueries : SearchByTag_Query(tag)
    \/ \E rid \in DOMAIN reqs : SearchByTag_Respond(rid)
    \/ \E query \in TextQueries : SearchPosts_Query(query)
    \/ \E rid \in DOMAIN reqs : SearchPosts_Respond(rid)

SpecHandlers == Init /\ [][HandlersNext]_vars

\* The process from the first statement of main: the start-up, clients that
\* read posts once it listens, and its exit.
InitMain ==
    /\ limit = MaxRequests
    /\ posts = SeedPosts
    /\ activity_logs = {}
    /\ posts_id_seq = NumSeedPosts
    /\ logs_id_seq = 0
    /\ cache = EmptyMap
    /\ now = 0
    /\ expires = EmptyMap
    /\ process = Starting
    /\ index = EmptyMap
    /\ started = 0
    /\ reqs = EmptyMap
    /\ tasks = EmptyMap
    /\ acked = EmptyMap
    /\ invalidated = EmptyMap
    /\ task_failed = {}
    /\ faults = 0

MainNext ==
    \/ main_initDB
    \/ main_initRedis
    \/ main_initElasticsearch
    \/ main_ListenAndServe
    \/ process.pc = "ListenAndServe" /\ \E id \in TargetIds : GetPost_CacheGet(id)
    \/ process.pc = "ListenAndServe" /\ \E rid \in DOMAIN reqs : GetPost_StoreGet(rid)
    \/ process.pc = "ListenAndServe" /\ \E rid \in DOMAIN reqs : GetPost_CacheSet(rid)
    \/ process.pc = "ListenAndServe" /\ \E rid \in DOMAIN reqs : GetPost_Augment(rid)
    \/ process.pc = "ListenAndServe" /\ \E rid \in DOMAIN reqs : GetPost_Respond(rid)

SpecMain == InitMain /\ [][MainNext]_vars

\* Clients that read posts while the clock of Redis runs.
TimedNext ==
    \/ \E id \in TargetIds : GetPost_CacheGet(id)
    \/ \E rid \in DOMAIN reqs : GetPost_StoreGet(rid)
    \/ \E rid \in DOMAIN reqs : GetPost_CacheSet(rid)
    \/ \E rid \in DOMAIN reqs : GetPost_Augment(rid)
    \/ \E rid \in DOMAIN reqs : GetPost_Respond(rid)
    \/ Clock_Tick

SpecTimed == Init /\ [][TimedNext]_vars

\* GetRelatedPosts alone, called in an index that holds any of the documents.
InitRelated ==
    /\ limit = MaxRequests
    /\ posts = SeedPosts
    /\ activity_logs = {}
    /\ posts_id_seq = NumSeedPosts
    /\ logs_id_seq = 0
    /\ cache = EmptyMap
    /\ now = 0
    /\ expires = EmptyMap
    /\ process = Serving
    /\ index \in IndexStates
    /\ started = 0
    /\ reqs = EmptyMap
    /\ tasks = EmptyMap
    /\ acked = EmptyMap
    /\ invalidated = EmptyMap
    /\ task_failed = {}
    /\ faults = 0

RelatedNext ==
    \/ \E id \in RelatedIds, tags \in RelatedTags : GetRelatedPosts_Call(id, tags)
    \/ \E rid \in DOMAIN reqs : GetRelatedPosts_Return(rid)

SpecRelated == InitRelated /\ [][RelatedNext]_vars

\* SearchPosts alone, called in an index that holds any of the documents.
FullTextNext ==
    \/ \E query \in TextQueries : SearchPosts_Query(query)
    \/ \E rid \in DOMAIN reqs : SearchPosts_Respond(rid)

SpecFullText == InitRelated /\ [][FullTextNext]_vars

\* The clients that read and update, sending one request more.
InitMore == Start(MaxRequests + 1)
SpecReadWriteMore == InitMore /\ [][ReadWriteNext]_vars

----------------------------------------------------------------------------
(* Reads after an update *)

\* The GetPost requests about to answer with a post.
GetAnswers == { rid \in DOMAIN reqs : /\ reqs[rid].kind = "get"
                                      /\ reqs[rid].pc = "respond"
                                      /\ reqs[rid].status = StatusOK }

\* C1: a GetPost(id) that starts after an UpdatePost(id) has responded OK
\* returns the title and content of that update or of a newer one, never
\* an older title or content, whatever GetPost and UpdatePost requests ran
\* concurrently before.  Stated for the behaviours in which no call to a
\* store has failed, where the invalidation of every update has run.
C1_GetAfterUpdateIsFresh ==
    faults = 0 =>
        \A rid \in GetAnswers : WriterOf(reqs[rid].post.title) >= reqs[rid].floor

\* C2: an entry of the cache for id K holds a value of the row that is no
\* older than the last completed invalidation of K: the value an update
\* replaced is not in the cache once that update's InvalidatePost has run.
\* (invalidated[K] is the newest update of K whose InvalidatePost succeeded.)
C2_CacheNotOlderThanInvalidation ==
    \A id \in DOMAIN cache : WriterOf(cache[id].title) >= Get(invalidated, id, 0)

----------------------------------------------------------------------------
(* The transaction of CreatePostWithTransaction *)

\* The activity_logs rows that reference a post.
LogsOf(id) == { l \in activity_logs : l.post_id = id }

\* The posts CreatePost has committed: the rows that are not of the sample data.
CreatedIds == { id \in DOMAIN posts : id > NumSeedPosts }

CreateReqs == { rid \in DOMAIN reqs : reqs[rid].kind = "create" }

\* C3: CreatePostWithTransaction is atomic.  The rows of an open
\* transaction are in no table a reader sees; a create answers 201 exactly
\* when its post row is committed, and then its log row is committed too;
\* a create that fails after its post insert answers 500 and leaves neither
\* row; no committed post of a create lacks its log row and no log row lacks
\* its post.
C3_CreateWithAuditAtomic ==
    /\ \A id \in CreatedIds : LogsOf(id) # {}
    /\ \A l \in activity_logs : l.post_id \in DOMAIN posts
    /\ \A rid \in CreateReqs :
          LET r == reqs[rid] IN
          /\ r.pc \in {"insert_log", "commit"} =>
                r.id \notin DOMAIN posts /\ LogsOf(r.id) = {}
          /\ r.pc = "respond" =>
                /\ r.status \in {StatusCreated, StatusBadRequest, StatusInternalServerError}
                /\ r.status = StatusCreated <=> r.id \in DOMAIN posts
                /\ r.status # StatusCreated =>
                      r.post = NoPost /\ LogsOf(r.id) = {}

\* C3's case: the post insert of a create succeeded (the request holds the
\* id it drew), a later step of the transaction failed, and the create
\* is answering 500.
C3_Witness ==
    \E rid \in CreateReqs : /\ reqs[rid].pc = "respond"
                             /\ reqs[rid].status = StatusInternalServerError
                             /\ reqs[rid].id # 0

\* C4, as the spec states it: every row of posts has exactly one "new_post"
\* row of activity_logs, and no row of activity_logs is without its post.
C4_EveryPostHasOneLog ==
    /\ \A id \in DOMAIN posts :
          Cardinality({ l \in LogsOf(id) : l.action = "new_post" }) = 1
    /\ \A l \in activity_logs : l.post_id \in DOMAIN posts

C4_Logs ==
    /\ \A id \in CreatedIds :
          Cardinality({ l \in LogsOf(id) : l.action = "new_post" }) = 1
    /\ \A l \in activity_logs : l.action = "new_post" /\ l.post_id \in CreatedIds

C4_LogsChange ==
    activity_logs' # activity_logs =>
        \E rid \in CreateReqs :
            /\ reqs[rid].pc = "commit"
            /\ reqs'[rid].status = StatusCreated
            /\ \E l \in activity_logs' :
                  /\ l.post_id = reqs[rid].id
                  /\ l \notin activity_logs
                  /\ activity_logs' = activity_logs \cup {l}

\* C4, amended: every post a CreatePost has committed has exactly one
\* "new_post" row of activity_logs, every row of activity_logs is the
\* "new_post" row of such a post (the posts of the sample data have none),
\* and activity_logs changes only by the commit of a successful CreatePost,
\* which adds that one row: UpdatePost and GetPost never touch it.
C4_OneLogPerCreatedPost == []C4_Logs /\ [][C4_LogsChange]_vars

\* C4's case: a post was created and then updated by a later request, and
\* its log row is there.
C4_Witness ==
    \E rid \in DOMAIN reqs :
        /\ reqs[rid].kind = "update" /\ reqs[rid].id \in CreatedIds
        /\ reqs[rid].pc = "respond" /\ reqs[rid].status = StatusOK
        /\ posts[reqs[rid].id].title = reqs[rid].title
        /\ LogsOf(reqs[rid].id) # {}

C5_Commit ==
    \A rid \in CreateReqs :
        (reqs[rid].pc = "commit" /\ rid \in DOMAIN reqs'
                                 /\ reqs'[rid].status = StatusCreated) =>
            /\ reqs[rid].id \notin DOMAIN posts
            /\ DOMAIN posts' = DOMAIN posts \cup {reqs[rid].id}
            /\ Cardinality(activity_logs') = Cardinality(activity_logs) + 1
            /\ \E l \in activity_logs' \ activity_logs : l.post_id = reqs[rid].id

\* C5: every CreatePost that succeeds, whatever other creates run
\* concurrently, adds one post under an id no committed post has and one
\* log row that references it; so N successful creates leave N distinct ids
\* and N log rows, one per post.
C5_DistinctIdsAndLogs == [][C5_Commit]_vars

\* C5's case: two creates that ran concurrently have both committed and are
\* both answering 201.
C5_Witness ==
    \E r1, r2 \in CreateReqs :
        /\ r1 # r2
        /\ reqs[r1].pc = "respond" /\ reqs[r1].status = StatusCreated
        /\ reqs[r2].pc = "respond" /\ reqs[r2].status = StatusCreated
        /\ reqs[r1].id # reqs[r2].id

----------------------------------------------------------------------------
(* What GetPost returns of a written post *)

\* C6: a GetPost that answers with the title a write gave to the row that
\* is now in the store (titles name their write) answers with the content
\* and the tag sequence of that write too, the tags in the same order,
\* whether the post came from the store or from the cache.
C6_WrittenPostRoundTrips ==
    \A rid \in GetAnswers :
        LET r == reqs[rid] IN
        (r.id \in DOMAIN posts /\ r.post.title = posts[r.id].title) =>
            /\ r.post.content = posts[r.id].content
            /\ r.post.tags = posts[r.id].tags

----------------------------------------------------------------------------
(* The background indexing *)

\* The CreatePost requests about to answer 201.
CreateAnswers == { rid \in CreateReqs : /\ reqs[rid].pc = "respond"
                                        /\ reqs[rid].status = StatusCreated }

WriteReqs == { rid \in DOMAIN reqs : reqs[rid].kind \in {"create", "update"} }

\* C8: once every write request has been answered and every background
\* task has returned, none with an error, the document of each indexed id
\* has the title and the content of the row in the store.  (The claim says
\* the same of the tags.)
C8_IndexCatchesUp ==
    (WriteReqs = {} /\ DOMAIN tasks = {} /\ task_failed = {}) =>
        \A id \in DOMAIN index : /\ index[id].title = posts[id].title
                                  /\ index[id].content = posts[id].content

\* C9: a background task sends one index request and no more: no task is
\* left to send its request again after a failed one.
C9_OneAttemptNeverRetried ==
    \A rid \in DOMAIN tasks : tasks[rid].retries = 0

----------------------------------------------------------------------------
(* Failures of the cache *)

\* C10: no cache operation fails the request.  A GetPost answers 500
\* exactly when its read of the store failed and an UpdatePost exactly when
\* its update of the store failed; a GetPost whose cache read failed goes
\* on as after a miss and never answers from the cache; a failed SetPost
\* or InvalidatePost is logged and the request goes on to answer 200.
C10_CacheNeverFailsRequest ==
    \A rid \in DOMAIN reqs :
        LET r == reqs[rid] IN
        /\ r.kind = "get" =>
              /\ "Cache error" \in r.log =>
                    "Cache miss" \in r.log /\ "Cache hit" \notin r.log
              /\ "Failed to cache post" \in r.log =>
                    /\ r.pc \in {"augment", "respond"}
                    /\ r.pc = "respond" => r.status = StatusOK
              /\ r.pc = "respond" =>
                    /\ r.status \in {StatusOK, StatusNotFound, StatusInternalServerError}
                    /\ r.status = StatusInternalServerError <=> "Failed to get post" \in r.log
                    /\ r.status = StatusNotFound => "Cache hit" \notin r.log
        /\ r.kind = "update" =>
              /\ "Failed to invalidate cache" \in r.log =>
                    r.pc = "respond" /\ r.status = StatusOK
              /\ r.pc = "respond" =>
                    (r.status = StatusInternalServerError <=> "Failed to update post" \in r.log)

\* C10's case: the cache read of a GetPost failed, or its SetPost did, and
\* the request is answering 200 with the post of the store.
C10_Witness ==
    \E rid \in GetAnswers :
        /\ reqs[rid].log \cap {"Cache error", "Failed to cache post"} # {}
        /\ reqs[rid].post.title = posts[reqs[rid].id].title

----------------------------------------------------------------------------
(* Failures of the search index on the read path *)

C11_Augment ==
    \A rid \in DOMAIN reqs :
        (/\ reqs[rid].kind = "get" /\ reqs[rid].pc = "augment"
         /\ rid \in DOMAIN reqs'
         /\ "Error searching related posts" \in reqs'[rid].log) =>
            /\ reqs'[rid].pc = "respond"
            /\ reqs'[rid].status = StatusOK
            /\ reqs'[rid].post = [reqs[rid].post EXCEPT !.related_posts = {}]

\* C11: when the search of the related posts fails, on the cache-hit path
\* and on the cache-miss path alike, GetPost answers 200 with an empty
\* related_posts list and with the id, title, content, tags and created_at
\* it held before the search.
C11_AugmentFailureIsAbsorbed == [][C11_Augment]_vars

\* C11's case: a GetPost served from the cache is answering after the search
\* of its related posts failed.
C11_Witness ==
    \E rid \in GetAnswers :
        /\ {"Cache hit", "Error searching related posts"} \subseteq reqs[rid].log
        /\ reqs[rid].post.tags # <<>>

----------------------------------------------------------------------------
(* Which failures the caller sees *)

\* What the handlers log when their call of the PostStore failed.
StoreFailures == {"Failed to create post", "Failed to get post",
                  "Failed to update post", "Failed to search posts by tag"}

\* What the handlers log when a call of the cache, or the search of the
\* related posts, failed.
AbsorbedFailures == {"Cache error", "Failed to cache post",
                     "Failed to invalidate cache", "Error searching related posts"}

\* The requests whose response is being written.
Answers == { rid \in DOMAIN reqs : reqs[rid].pc = "respond" }

\* C12 as stated: on every endpoint a response is 200, 201, 400, 404 or
\* 500, and a 500 comes from a failure of the PostStore only.
C12_OnlyStoreFailuresVisible ==
    \A rid \in Answers :
        /\ reqs[rid].status \in {StatusOK, StatusCreated, StatusBadRequest,
                                  StatusNotFound, StatusInternalServerError}
        /\ reqs[rid].status = StatusInternalServerError =>
              reqs[rid].log \cap StoreFailures # {}

\* C12, amended: GetPost, UpdatePost and the search by tag answer 500
\* exactly when their call of the PostStore failed, and a failure of the
\* cache or of the search of the related posts leaves the status at the
\* 200 or 404 the PostStore decides;
\* the full-text search, whose only store is the search index, answers 500
\* exactly when its search failed.
C12_VisibleFailures ==
    \A rid \in Answers :
        LET r == reqs[rid] IN
        /\ r.status \in {StatusOK, StatusCreated, StatusBadRequest,
                         StatusNotFound, StatusInternalServerError}
        /\ r.kind # "search" =>
              /\ r.status = StatusInternalServerError <=> r.log \cap StoreFailures # {}
              /\ (r.log \cap AbsorbedFailures # {} /\ r.log \cap StoreFailures = {}) =>
                    r.status \in {StatusOK, StatusNotFound}
        /\ r.kind = "search" =>
              /\ r.status = StatusInternalServerError <=> "Failed to search posts" \in r.log
              /\ r.status = StatusBadRequest <=> r.q = ""

\* C12's case: a full-text search is answering 500 because the search
\* index failed.
C12_Witness ==
    \E rid \in Answers :
        /\ reqs[rid].kind = "search"
        /\ reqs[rid].q # ""
        /\ reqs[rid].status = StatusInternalServerError

----------------------------------------------------------------------------
(* UpdatePost of a post that does not exist *)

\* The UpdatePost request a step starts, if it starts one.
StartedUpdate ==
    IF /\ started' = started + 1
       /\ started + 1 \in DOMAIN reqs'
       /\ reqs'[started + 1].kind = "update"
    THEN {started + 1} ELSE {}

C13_Update ==
    /\ \A rid \in StartedUpdate :
          LET r == reqs'[rid] IN
          r.id \notin DOMAIN posts =>
              /\ r.pc = "respond"
              /\ r.status \in {StatusBadRequest, StatusNotFound, StatusInternalServerError}
              /\ (r.title # "" /\ r.content # "" /\ faults' = faults) =>
                    r.status = StatusNotFound
              /\ UNCHANGED <<posts, activity_logs, cache, invalidated, index, tasks>>
    /\ \A rid \in DOMAIN reqs :
          (/\ reqs[rid].kind = "update" /\ reqs[rid].status = StatusNotFound
           /\ rid \notin DOMAIN reqs') =>
              UNCHANGED <<posts, activity_logs, cache, invalidated, index, tasks, acked>>

\* C13: an UpdatePost of an id that has no row answers 404 when its body
\* is valid and the store answers (400 and 500 otherwise, never 200), and
\* neither its step nor its response changes a post row, the activity log,
\* the cache, the search index or the set of goroutines: the cache is not
\* invalidated and no reindexing is launched.
C13_UpdateOfMissingPost == [][C13_Update]_vars

----------------------------------------------------------------------------
(* UpdatePost with an empty title or content *)

C14_Update ==
    /\ \A rid \in StartedUpdate :
          LET r == reqs'[rid] IN
          (r.title = "" \/ r.content = "") =>
              /\ r.pc = "respond"
              /\ r.status = StatusBadRequest
              /\ UNCHANGED <<posts, activity_logs, cache, invalidated, index, tasks>>
    /\ \A id \in DOMAIN posts' : posts'[id].title # "" /\ posts'[id].content # ""

\* C14: an UpdatePost whose title or content is empty is answered 400 in
\* the step it starts in, before any store is called: the row, the cache
\* entry and the document of its id stay as they are and no goroutine is
\* launched; and so no row of posts ever has an empty title or content.
C14_UpdateValidatesFirst == [][C14_Update]_vars

----------------------------------------------------------------------------
(* CreatePost with an empty title or content *)

\* The CreatePost request a step starts, if it starts one.
StartedCreate ==
    IF /\ started' = started + 1
       /\ started + 1 \in DOMAIN reqs'
       /\ reqs'[started + 1].kind = "create"
    THEN {started + 1} ELSE {}

C15_Create ==
    /\ \A rid \in StartedCreate :
          LET r == reqs'[rid] IN
          (r.title = "" \/ r.content = "") =>
              /\ r.pc = "respond"
              /\ r.status = StatusBadRequest
              /\ r.post = NoPost /\ r.txlog = 0
              /\ UNCHANGED <<posts, activity_logs, posts_id_seq, logs_id_seq, cache,
                             index, tasks, faults>>
    /\ \A rid \in DOMAIN reqs :
          (/\ reqs[rid].kind = "create" /\ reqs[rid].status = StatusBadRequest
           /\ rid \notin DOMAIN reqs') =>
              UNCHANGED <<posts, activity_logs, posts_id_seq, logs_id_seq, cache,
                          index, tasks, faults>>

----------------------------------------------------------------------------
(* CreatePost whose transaction fails *)

\* The CreatePost requests that a step brings to the answer 500.
FailingCreates ==
    { rid \in DOMAIN reqs' :
        /\ reqs'[rid].kind = "create"
        /\ reqs'[rid].status = StatusInternalServerError
        /\ rid \in DOMAIN reqs => reqs[rid].status # StatusInternalServerError }

C16_Create ==
    /\ \A rid \in FailingCreates :
          LET r == reqs'[rid] IN
          /\ r.pc = "respond"
          /\ r.post = NoPost /\ r.txlog = 0
          /\ rid \notin DOMAIN tasks'
          /\ UNCHANGED <<posts, activity_logs, cache, index, tasks>>
          /\ \A id \in DOMAIN posts' : posts'[id].title # r.title
          /\ \A d \in Range(index') : d.title # r.title
    /\ \A rid \in DOMAIN reqs :
          (/\ reqs[rid].kind = "create"
           /\ reqs[rid].status = StatusInternalServerError
           /\ rid \notin DOMAIN reqs') =>
              UNCHANGED <<posts, activity_logs, posts_id_seq, logs_id_seq, cache,
                          index, tasks>>

\* C16: when db.Begin(), the insert of the post, the insert of the log row
\* or the commit fails, CreatePost answers 500 and the step of the failure,
\* like the writing of the response after it, leaves posts, activity_logs,
\* the cache, the index and the goroutines as they were: the transaction is
\* rolled back and holds no row, no row and no document carries the title
\* of the request, and no indexing goroutine is launched for it.
C16_FailedCreateWritesNothing == [][C16_Create]_vars

\* C16's case: a CreatePost is answering 500 after its transaction had
\* inserted its post (the failure came at the log row or at the commit),
\* while the post of another CreatePost is committed.
C16_Witness ==
    \E rid \in Answers :
        /\ reqs[rid].kind = "create"
        /\ reqs[rid].status = StatusInternalServerError
        /\ reqs[rid].id # 0
        /\ DOMAIN posts # DOMAIN SeedPosts

----------------------------------------------------------------------------
(* Search by tag *)

\* The search a step starts and answers 200, if it does: kind is
\* "search_by_tag" or "search".
StartedSearch(kind) ==
    IF /\ started' = started + 1
       /\ started + 1 \in DOMAIN reqs'
       /\ reqs'[started + 1].kind = kind
       /\ reqs'[started + 1].status = StatusOK
    THEN {started + 1} ELSE {}

\* The ids of the posts of a result.
ResultIds(result) == { result[i].id : i \in 1..Len(result) }

\* The result holds the posts that have the tag, each once.
ExactMembers(r) ==
    /\ ResultIds(r.result) = MatchingIds(r.q)
    /\ Len(r.result) = Cardinality(MatchingIds(r.q))

C17_Query == \A rid \in StartedSearch("search_by_tag") : ExactMembers(reqs'[rid])

\* C17: whatever creates and updates came before, the result of a search
\* by a non-empty tag T that answers 200 holds a post P of the store if and
\* only if T is an element of the tags P has now, and holds it once.
C17_FindByTagIsExactMembership == [][C17_Query]_vars

\* The same for the searches during which no call of the store failed.
C17_ExactWhenAllRowsArrive ==
    [][\A rid \in StartedSearch("search_by_tag") :
           faults' = faults => ExactMembers(reqs'[rid])]_vars

----------------------------------------------------------------------------
(* Related posts *)

\* The summaries share a tag with tags and none of them has the id.
RelatedTo(id, tags, related) ==
    \A summary \in related :
        /\ summary.id # id
        /\ \E i \in 1..Len(tags) : tags[i] \in Range(summary.tags)

\* C18: in every state of the index, what GetRelatedPosts(id, tags) returns
\* holds no summary with the id and only summaries that have one of the
\* tags; and so the related_posts of a GetPost response never hold the post
\* of the response.
C18_RelatedExcludesSelfAndSharesTag ==
    \A rid \in DOMAIN reqs :
        LET r == reqs[rid] IN
        /\ (r.kind = "related" /\ r.pc = "return") =>
              RelatedTo(r.id, r.tags, r.post.related_posts)
        /\ (r.kind = "get" /\ r.pc = "respond" /\ r.status = StatusOK) =>
              /\ r.post.id = r.id
              /\ RelatedTo(r.id, r.post.tags, r.post.related_posts)

\* C18's case: GetRelatedPosts returns summaries for an id whose own
\* document is in the index and has one of the tags.
C18_Witness ==
    \E rid \in DOMAIN reqs :
        LET r == reqs[rid] IN
        /\ r.kind = "related" /\ r.pc = "return"
        /\ r.post.related_posts # {}
        /\ r.id \in DOMAIN index
        /\ \E i \in 1..Len(r.tags) : r.tags[i] \in Range(index[r.id].tags)

----------------------------------------------------------------------------
(* The size of the related posts, and the search that is not made *)

\* The call of GetRelatedPosts a step makes, if it makes one.
StartedRelated ==
    IF /\ started' = started + 1
       /\ started + 1 \in DOMAIN reqs'
       /\ reqs'[started + 1].kind = "related"
    THEN {started + 1} ELSE {}

C19_Call ==
    /\ \A rid \in StartedRelated :
          LET r == reqs'[rid] IN
          /\ Cardinality(r.post.related_posts) <= RelatedSize
          /\ r.tags = <<>> =>
                /\ r.post.related_posts = {}
                /\ r.log = {}
                /\ faults' = faults
    /\ \A rid \in DOMAIN reqs :
          (/\ reqs[rid].kind = "get" /\ reqs[rid].pc = "augment"
           /\ rid \in DOMAIN reqs' /\ reqs'[rid].pc = "respond") =>
              LET r == reqs'[rid] IN
              /\ Cardinality(r.post.related_posts) <= RelatedSize
              /\ reqs[rid].post.tags = <<>> =>
                    /\ r.post.related_posts = {}
                    /\ "Error searching related posts" \notin r.log
                    /\ faults' = faults

\* C19: GetRelatedPosts returns RelatedSize = 5 summaries at most, whatever
\* the index holds; and for no tag it returns the empty list without a
\* search: that call cannot fail, it logs nothing and uses no call of the
\* index, in a call of the function alone and in GetPost alike.
C19_AtMostFiveAndNoQueryForNoTag == [][C19_Call]_vars

\* C19's case: a call returns 5 summaries from an index that has more hits
\* for it, and a call with no tag returns the empty list.
C19_Witness ==
    /\ \E rid \in DOMAIN reqs :
          LET r == reqs[rid] IN
          /\ r.kind = "related" /\ r.pc = "return"
          /\ Cardinality(r.post.related_posts) = RelatedSize
          /\ Cardinality(RelatedHits(r.id, r.tags)) > RelatedSize
    /\ \E rid \in DOMAIN reqs :
          LET r == reqs[rid] IN
          /\ r.kind = "related" /\ r.pc = "return"
          /\ r.tags = <<>> /\ r.post.related_posts = {}

----------------------------------------------------------------------------
(* Full-text search *)

\* The text has a word of the query.
Matches(text, query) == Analyze(text) \cap Analyze(query) # {}

\* The ids of the documents whose title or whose content has a word of the query.
MatchingDocs(query) ==
    { id \in DOMAIN index : \/ Matches(index[id].title, query)
                             \/ Matches(index[id].content, query) }

C20_Query ==
    \A rid \in StartedSearch("search") :
        LET r == reqs'[rid] IN
        /\ ResultIds(r.result) = MatchingDocs(r.q)
        /\ \A i \in 1..Len(r.result) :
              /\ "score" \in DOMAIN r.result[i]
              /\ r.result[i].score > 0
              /\ r.result[i].title = index[r.result[i].id].title
              /\ r.result[i].content = index[r.result[i].id].content

----------------------------------------------------------------------------
(* What the cache holds *)

\* The rows a write of the requests sent so far can have committed for id K
\* (a write of request w gives the title TitleOf(w) and the content
\* ContentOf(w), with the tags of its body), and the row of the sample data.
CommittedRows(K) ==
    { [id |-> K, title |-> TitleOf(w), content |-> ContentOf(w), tags |-> t] :
        w \in 1..started, t \in TagInputs }
    \cup { [id |-> K, title |-> SeedPosts[k].title, content |-> SeedPosts[k].content,
            tags |-> SeedPosts[k].tags] : k \in {K} \cap DOMAIN SeedPosts }

\* The id, title, content and tags of a cached document.
CachedFields(data) ==
    [id |-> data.id, title |-> data.title, content |-> data.content, tags |-> data.tags]

\* C21: an entry of the cache under the key of K is for an id that has a
\* row, holds the id K, and holds the title, content and tags that a
\* committed row of K had: those of the row now in the store when its
\* title is that row's (titles name their write), and those of a write of
\* K otherwise.
C21_CacheHoldsCommittedRows ==
    \A K \in DOMAIN cache :
        /\ K \in DOMAIN posts
        /\ cache[K].id = K
        /\ CachedFields(cache[K]) \in CommittedRows(K)
        /\ cache[K].title = posts[K].title =>
              /\ cache[K].content = posts[K].content
              /\ cache[K].tags = posts[K].tags

\* The same without the tags.
C21_ExceptTags ==
    \A K \in DOMAIN cache :
        /\ K \in DOMAIN posts
        /\ cache[K].id = K
        /\ \E row \in CommittedRows(K) :
              cache[K].title = row.title /\ cache[K].content = row.content
        /\ cache[K].title = posts[K].title => cache[K].content = posts[K].content

----------------------------------------------------------------------------
(* The three outcomes of a read of the cache *)

\* The GetPost request a step starts, if it starts one.
StartedGet ==
    IF /\ started' = started + 1
       /\ started + 1 \in DOMAIN reqs'
       /\ reqs'[started + 1].kind = "get"
    THEN {started + 1} ELSE {}

C22_CacheGet ==
    \A rid \in StartedGet :
        LET r == reqs'[rid] IN
        /\ (faults' = faults /\ r.id \in DOMAIN cache) =>
              /\ r.pc = "augment"
              /\ r.post = UnmarshalPost(cache[r.id])
              /\ r.log = {"Cache hit"}
        /\ (faults' = faults /\ r.id \notin DOMAIN cache) =>
              /\ r.pc = "db_get"
              /\ r.post = NoPost
              /\ r.log = {"Cache miss"}
        /\ faults' # faults =>
              /\ r.pc = "db_get"
              /\ r.post = NoPost
              /\ "Cache error" \in r.log
              /\ "Cache hit" \notin r.log

\* C22: the read of the cache at the start of GetPost has three outcomes
\* that the handler tells apart: the entry (the post, "Cache hit"), a clean
\* miss (no post, "Cache miss" and nothing else), and a failure of the cache
\* (no post, and "Cache error" logged before the handler goes on as after a
\* miss); a failure is never taken for a clean miss.
C22_CacheGetHasThreeOutcomes == [][C22_CacheGet]_vars

----------------------------------------------------------------------------
(* The order of the steps of UpdatePost *)

\* The row of the request's id holds what the request wrote, or what a
\* later write wrote.
UpdateCommitted(rid) ==
    /\ reqs[rid].id \in DOMAIN posts
    /\ WriterOf(posts[reqs[rid].id].title) >= rid

\* The InvalidatePost of the request has returned ("Cache invalidated" is
\* logged after it): the key was deleted by it or by a later update, or the
\* error was logged.
InvalidationFinished(rid) ==
    /\ "Cache invalidated" \in reqs[rid].log
    /\ \/ Get(invalidated, reqs[rid].id, 0) >= rid
       \/ "Failed to invalidate cache" \in reqs[rid].log

\* C23: an UpdatePost that has updated the row first runs InvalidatePost,
\* with the update already committed and no response written, and answers
\* 200 only when InvalidatePost has returned; when InvalidatePost failed
\* the answer is 200 all the same.
C23_UpdateThenInvalidateThenRespond ==
    \A rid \in DOMAIN reqs :
        LET r == reqs[rid] IN
        r.kind = "update" =>
            /\ r.pc = "invalidate" =>
                  /\ r.status = 0
                  /\ UpdateCommitted(rid)
                  /\ ~InvalidationFinished(rid)
            /\ (r.pc = "respond" /\ r.status = StatusOK) =>
                  /\ UpdateCommitted(rid)
                  /\ InvalidationFinished(rid)
            /\ "Failed to invalidate cache" \in r.log =>
                  r.pc = "respond" /\ r.status = StatusOK

\* C23's case: an UpdatePost whose InvalidatePost failed is answering 200,
\* its update being in the store.
C23_Witness ==
    \E rid \in Answers :
        /\ reqs[rid].kind = "update"
        /\ reqs[rid].status = StatusOK
        /\ "Failed to invalidate cache" \in reqs[rid].log
        /\ posts[reqs[rid].id].title = reqs[rid].title

----------------------------------------------------------------------------
(* Concurrent updates of one post *)

\* The UpdatePost requests that have updated the row of id and are not yet
\* answered to the end.
UpdatesOf(id) ==
    { rid \in DOMAIN reqs : /\ reqs[rid].kind = "update"
                             /\ reqs[rid].id = id
                             /\ \/ reqs[rid].pc = "invalidate"
                                \/ reqs[rid].pc = "respond" /\ reqs[rid].status = StatusOK }

\* C24: while UpdatePost requests on one id run side by side, the row
\* holds the title, the content and the tags of one of them, the one that
\* updated last (titles name their write), never fields of two; and an
\* UpdatePost fails only when its own call of the store failed or, for an
\* id that was not seeded, found no row, never because of another update.
C24_LastWriterWins ==
    /\ \A id \in DOMAIN posts :
          \A rid \in UpdatesOf(id) :
              /\ WriterOf(posts[id].title) >= rid
              /\ WriterOf(posts[id].title) = rid =>
                    /\ posts[id].content = reqs[rid].content
                    /\ posts[id].tags = reqs[rid].tags
              /\ rid = Max(UpdatesOf(id)) =>
                    \/ posts[id].title = reqs[rid].title
                    \/ WriterOf(posts[id].title) \notin DOMAIN reqs
    /\ \A rid \in Answers :
          reqs[rid].kind = "update" =>
              /\ reqs[rid].status = StatusInternalServerError
                    <=> "Failed to update post" \in reqs[rid].log
              /\ reqs[rid].status = StatusNotFound => reqs[rid].id > NumSeedPosts

\* C24's case: two UpdatePost requests on one id, with different tags, have
\* both succeeded and are both answering, and the row holds the three
\* fields of the second.
C24_Witness ==
    \E r1, r2 \in Answers :
        /\ r1 < r2
        /\ {r1, r2} \subseteq UpdatesOf(reqs[r1].id)
        /\ reqs[r1].tags # reqs[r2].tags
        /\ posts[reqs[r2].id].title = reqs[r2].title
        /\ posts[reqs[r2].id].content = reqs[r2].content
        /\ posts[reqs[r2].id].tags = reqs[r2].tags

----------------------------------------------------------------------------
(* The single-file server against the layered one *)

\* What PostHandler.UpdatePost can make of request r in the current state:
\* the status it has decided when its store call is over (0: none yet, the
\* handler goes on to the invalidation) and the rows it leaves.
UpdateOutcomes(r) ==
    IF MissingField(r)
    THEN { [status |-> StatusBadRequest, posts |-> posts] }
    ELSE { [status |-> StatusInternalServerError, posts |-> posts] }
         \cup (IF RowsAffected(r.id) = 0
               THEN { [status |-> StatusNotFound, posts |-> posts] }
               ELSE { [status |-> 0, posts |-> UpdatedPosts(r.id, r)] })

C25_Update ==
    \A rid \in StartedUpdate :
        [status |-> reqs'[rid].status, posts |-> posts'] \in UpdateOutcomes(reqs'[rid])

\* C25: the single-file server and the layered server do not diverge: the
\* status and the rows that an update handler leaves for a request are a
\* status and rows that PostHandler.UpdatePost leaves for the same request
\* in the same state.
C25_VariantsAgree == [][C25_Update]_vars

----------------------------------------------------------------------------
(* The number of background tasks *)

\* C26: background indexing is bounded by a fixed number that does not grow
\* with the burst of writes: the index and reindex tasks alive at one time
\* are fewer than the requests of the burst.
C26_BackgroundTasksBounded == Cardinality(DOMAIN tasks) < limit

----------------------------------------------------------------------------
(* GetPost on a cache hit *)

\* The fields of a post that are stored: all but the related posts.
CoreFields(post) ==
    [id |-> post.id, title |-> post.title, content |-> post.content,
     tags |-> post.tags, created_at |-> post.created_at]

\* The GetPost requests whose cache read was a hit.
IsHit(r) == r.kind = "get" /\ "Cache hit" \in r.log

\* The GetPost requests that hold the post of their id, from cache or store.
Loaded(r) == r.kind = "get" /\ r.post.id = r.id

C27_Get ==
    /\ \A rid \in StartedGet :
          IsHit(reqs'[rid]) =>
              /\ reqs'[rid].id \in DOMAIN cache
              /\ CoreFields(reqs'[rid].post) = CoreFields(cache[reqs'[rid].id])
              /\ reqs'[rid].pc = "augment"
              /\ UNCHANGED <<posts, cache>>
    /\ \A rid \in DOMAIN reqs :
          (IsHit(reqs[rid]) /\ Get(reqs', rid, NoPost) # reqs[rid]) =>
              /\ UNCHANGED <<posts, cache>>
              /\ reqs[rid].pc \in {"augment", "respond"}
              /\ rid \in DOMAIN reqs' =>
                    /\ CoreFields(reqs'[rid].post) = CoreFields(reqs[rid].post)
                    /\ reqs'[rid].pc = "respond"
                    /\ reqs'[rid].status = StatusOK
    /\ \A r1, r2 \in DOMAIN reqs' :
          (/\ Loaded(reqs'[r1]) /\ Loaded(reqs'[r2])
           /\ reqs'[r1].id = reqs'[r2].id
           /\ reqs'[r1].id \in DOMAIN posts'
           /\ WriterOf(posts'[reqs'[r1].id].title) = 0) =>
              CoreFields(reqs'[r1].post) = CoreFields(reqs'[r2].post)

\* C27: a GetPost whose cache read is a hit takes the id, title, content,
\* tags and creation time of the cached entry, goes straight to the related
\* posts and the answer, and none of its steps changes the rows or the
\* cache; and as long as no update of the post has been committed, all the
\* GetPost requests on it, the one that missed and populated and the ones
\* that hit, hold the same fields.
C27_HitReturnsTheCachedPost == [][C27_Get]_vars

\* C27's case: a GetPost that missed and cached the post and a later one
\* that hit are both answering 200 with the same fields.
C27_Witness ==
    \E r1, r2 \in Answers :
        /\ r1 < r2
        /\ reqs[r1].kind = "get" /\ reqs[r1].status = StatusOK
        /\ "Cache miss" \in reqs[r1].log /\ "Failed to cache post" \notin reqs[r1].log
        /\ IsHit(reqs[r2]) /\ reqs[r2].status = StatusOK
        /\ reqs[r1].id = reqs[r2].id
        /\ CoreFields(reqs[r1].post) = CoreFields(reqs[r2].post)
        /\ reqs[r2].post.created_at # ZeroTime

----------------------------------------------------------------------------
(* GetPost on a miss that finds no post *)

\* The GetPost requests that read the store in this step.
ReadsStore ==
    { rid \in DOMAIN reqs : /\ reqs[rid].kind = "get" /\ reqs[rid].pc = "db_get"
                             /\ Get(reqs', rid, NoPost) # reqs[rid] }

\* The GetPost requests that are answering 404 or 500.
FailedGets ==
    { rid \in Answers : /\ reqs[rid].kind = "get"
                         /\ reqs[rid].status \in {StatusNotFound, StatusInternalServerError} }

C28_StoreGet ==
    /\ \A rid \in ReadsStore :
          /\ rid \in DOMAIN reqs'
          /\ (faults' = faults /\ reqs[rid].id \notin DOMAIN posts) =>
                /\ reqs'[rid].pc = "respond"
                /\ reqs'[rid].status = StatusNotFound
                /\ reqs'[rid].post = NoPost
                /\ UNCHANGED <<posts, cache, index, tasks>>
          /\ faults' # faults =>
                /\ reqs'[rid].pc = "respond"
                /\ reqs'[rid].status = StatusInternalServerError
                /\ reqs'[rid].post = NoPost
                /\ UNCHANGED <<posts, cache, index, tasks>>
    /\ \A rid \in FailedGets :
          Get(reqs', rid, NoPost) # reqs[rid] =>
              /\ rid \notin DOMAIN reqs'
              /\ UNCHANGED <<posts, cache, index, tasks>>

\* C28: a GetPost that missed the cache and finds no row for its id is
\* answered 404, and one whose read of the store fails is answered 500; in
\* both cases the handler goes from the store straight to the answer, with
\* no post, no related posts searched, and the cache left as it was.
C28_MissOnMissingPost == [][C28_StoreGet]_vars

\* C28's case: one GetPost is answering 404 for an id without a row and
\* another 500 after the store failed, and the cache has no entry for either.
C28_Witness ==
    \E r1, r2 \in FailedGets :
        /\ reqs[r1].status = StatusNotFound
        /\ reqs[r1].id \notin DOMAIN posts
        /\ reqs[r2].status = StatusInternalServerError
        /\ "Failed to get post" \in reqs[r2].log
        /\ reqs[r1].id \notin DOMAIN cache
        /\ reqs[r2].id \notin DOMAIN cache

----------------------------------------------------------------------------
(* The TTL of the cache entries *)

\* The GetPost requests whose SetPost stores an entry in this step.
Populates ==
    { rid \in DOMAIN reqs : /\ reqs[rid].kind = "get" /\ reqs[rid].pc = "cache_set"
                             /\ rid \in DOMAIN reqs'
                             /\ reqs'[rid].pc = "augment"
                             /\ "Failed to cache post" \notin reqs'[rid].log }

C29_TTL ==
    /\ \A rid \in Populates :
          /\ reqs[rid].id \in DOMAIN cache'
          /\ expires'[reqs[rid].id] = now + CacheTTLMinutes
    /\ \A rid \in StartedGet : UNCHANGED expires
    /\ (Populates = {} /\ now' = now) => UNCHANGED expires
    /\ DOMAIN expires' = DOMAIN cache'
    /\ \A id \in DOMAIN cache' :
          /\ now' < expires'[id]
          /\ expires'[id] <= now' + CacheTTLMinutes
    /\ \A id \in DOMAIN cache :
          (now' # now /\ expires[id] <= now') => id \notin DOMAIN cache'

\* C29: a SetPost of GetPost, on a new key or an existing one, makes the
\* entry run out exactly 5 minutes after the write; no other step of GetPost,
\* a cache hit included, moves that time; an entry is gone when its time has
\* come, so every entry present was stored less than 5 minutes ago.
C29_EntriesLiveFiveMinutes == [][C29_TTL]_vars

\* C29's case: more than 5 minutes after start-up an entry is in its last
\* minute, 4 minutes after a GetPost stored it, and a GetPost that hit it is
\* being handled: the hit has not given the entry more time.
C29_Witness ==
    /\ now > CacheTTLMinutes
    /\ \E id \in DOMAIN cache : expires[id] = now + 1
    /\ \E rid \in DOMAIN reqs : IsHit(reqs[rid])

----------------------------------------------------------------------------
(* Related posts are computed for each answer *)

\* The GetPost requests that get their related posts in this step.
Augments ==
    { rid \in DOMAIN reqs : /\ reqs[rid].kind = "get" /\ reqs[rid].pc = "augment"
                             /\ rid \in DOMAIN reqs'
                             /\ reqs'[rid].pc = "respond" }

C30_Related ==
    /\ \A id \in DOMAIN cache' : "related_posts" \notin DOMAIN cache'[id]
    /\ \A id \in DOMAIN posts' : "related_posts" \notin DOMAIN posts'[id]
    /\ \A rid \in DOMAIN reqs' :
          (reqs'[rid].kind = "get" /\ reqs'[rid].pc # "respond") =>
              reqs'[rid].post.related_posts = {}
    /\ \A rid \in Augments :
          LET r == reqs[rid] IN
          /\ UNCHANGED <<posts, cache, index>>
          /\ IF r.post.tags = <<>> \/ faults' # faults
             THEN reqs'[rid].post.related_posts = {}
             ELSE reqs'[rid].post.related_posts
                      \in GetRelatedPosts(r.post.id, r.post.tags)

\* C30: no value in the cache and no row holds related posts; a GetPost,
\* hit or miss, holds none until its own search, whose result, taken from
\* the index as it is in that step, is what it answers with, and that step
\* writes neither rows nor cache.
C30_RelatedPostsNeverCached == [][C30_Related]_vars

\* C30's case: a GetPost is answering 200 with related posts while the cache
\* holds the entry of its post, stored without them.
C30_Witness ==
    \E rid \in Answers :
        /\ reqs[rid].kind = "get"
        /\ reqs[rid].status = StatusOK
        /\ reqs[rid].post.related_posts # {}
        /\ reqs[rid].id \in DOMAIN cache
        /\ "related_posts" \notin DOMAIN cache[reqs[rid].id]

----------------------------------------------------------------------------
(* IndexPost replaces the document *)

\* The background tasks whose IndexPost succeeds in this step.
Indexes ==
    { rid \in DOMAIN tasks : /\ tasks[rid].pc = "index"
                              /\ rid \notin DOMAIN tasks'
                              /\ faults' = faults }

C31_Upsert ==
    \A rid \in Indexes :
        LET post == tasks[rid].post IN
        /\ DOMAIN index' = DOMAIN index \cup {post.id}
        /\ index'[post.id] = [id |-> post.id, title |-> post.title,
                               content |-> post.content, tags |-> post.tags,
                               created_at |-> post.created_at]
        /\ \A k \in DOMAIN index \ {post.id} : index'[k] = index[k]
        /\ \A k \in DOMAIN index' : index'[k].id = k
        /\ Put(index', post.id, Doc(post)) = index'

\* C31: a successful IndexPost(post) leaves under the post's id a document
\* whose id, title, content, tags and creation time are the post's, with
\* nothing kept of the document that was there; the documents of the other
\* ids are as before, every document is stored under its own id, and
\* sending the same document again changes nothing.
C31_IndexPostReplacesTheDocument == [][C31_Upsert]_vars

\* C31's case: two UpdatePost requests on one post with different tags have
\* both succeeded, both their reindexing tasks have sent their document
\* without a failure, and the index holds the document of the row.
C31_Witness ==
    /\ tasks = EmptyMap /\ faults = 0 /\ task_failed = {}
    /\ \E r1, r2 \in Answers :
          /\ r1 < r2
          /\ {r1, r2} \subseteq UpdatesOf(reqs[r1].id)
          /\ reqs[r1].tags # reqs[r2].tags
          /\ reqs[r1].id \in DOMAIN index
          /\ index[reqs[r1].id] = Doc(GetPostByID(reqs[r1].id))

----------------------------------------------------------------------------
(* The creation time of a post *)

\* C32: an update leaves the identifier and the creation time of its row as
\* they were, and the creation time the index holds for a post is the one
\* of its row: every row is under its own id, the rows of the sample data
\* keep the creation time they were inserted with, and every document of a
\* post that has a row carries the row's creation time.
C32_UpdateKeepsCreationTime ==
    /\ \A id \in DOMAIN posts :
          /\ posts[id].id = id
          /\ id <= NumSeedPosts => posts[id].created_at = SeedPosts[id].created_at
    /\ \A id \in DOMAIN index \cap DOMAIN posts :
          index[id].created_at = posts[id].created_at

----------------------------------------------------------------------------
(* Who uses the cache *)

\* The UpdatePost requests whose InvalidatePost deletes the key in this step.
Invalidates ==
    { rid \in DOMAIN reqs : /\ reqs[rid].kind = "update" /\ reqs[rid].pc = "invalidate"
                             /\ rid \in DOMAIN reqs'
                             /\ reqs'[rid].pc = "respond"
                             /\ "Failed to invalidate cache" \notin reqs'[rid].log }

\* The TTL of a key runs out in this step.
Expires ==
    /\ reqs' = reqs /\ tasks' = tasks
    /\ \E id \in DOMAIN cache : cache' = Del(cache, id)

\* The requests of the kinds that take a step here.
Stepping(kinds) ==
    { rid \in DOMAIN reqs \cup DOMAIN reqs' :
        /\ Get(reqs', rid, NoPost) # Get(reqs, rid, NoPost)
        /\ Get(reqs', rid, Get(reqs, rid, NoPost)).kind \in kinds }

C33_Step ==
    /\ cache' # cache =>
          \/ \E rid \in Populates :
                cache' = Put(cache, reqs[rid].id, MarshalPost(reqs[rid].post))
          \/ \E rid \in Invalidates : cache' = Del(cache, reqs[rid].id)
          \/ Expires
    /\ Stepping({"create", "search_by_tag", "search"}) # {} =>
          UNCHANGED <<cache, expires>>
    /\ \A rid \in Stepping({"search_by_tag"}) :
          /\ UNCHANGED <<posts, index>>
          /\ (rid \in DOMAIN reqs' /\ reqs'[rid].status = StatusOK) =>
                \A i \in 1..Len(reqs'[rid].result) :
                    LET row == reqs'[rid].result[i] IN
                    /\ row.id \in DOMAIN posts
                    /\ row.title = posts[row.id].title
    /\ \A rid \in Stepping({"search"}) :
          /\ UNCHANGED <<posts, index>>
          /\ (rid \in DOMAIN reqs' /\ reqs'[rid].status = StatusOK) =>
                \A i \in 1..Len(reqs'[rid].result) :
                    LET hit == reqs'[rid].result[i] IN
                    /\ hit.id \in DOMAIN index
                    /\ hit.title = index[hit.id].title

\* C33: the cache changes only when a GetPost that missed stores its post,
\* when an UpdatePost that has written its row deletes the key, or when a
\* TTL runs out; no step of CreatePost, of the search by tag or of the
\* full-text search changes it; the search by tag answers with rows of the
\* posts table and the full-text search with documents of the index, and
\* neither writes either.
C33_OnlyGetAndUpdateUseTheCache == [][C33_Step]_vars

\* C33's case: a CreatePost is answering 201 for a committed post and a
\* search by tag is answering 200 with rows, while the cache and the index
\* are empty.
C33_Witness ==
    /\ cache = EmptyMap /\ index = EmptyMap
    /\ \E r1, r2 \in Answers :
          /\ reqs[r1].kind = "create" /\ reqs[r1].status = StatusCreated
          /\ reqs[r1].post.id \in DOMAIN posts
          /\ reqs[r2].kind = "search_by_tag" /\ reqs[r2].status = StatusOK
          /\ reqs[r2].result # <<>>

----------------------------------------------------------------------------
(* The handles of main *)

\* C34: on every way out of main, a failed start-up included, each handle
\* that was opened has been closed exactly once when the process has exited,
\* and no handle is ever closed twice or without having been opened.
C34_HandlesReleasedOnExit ==
    /\ \A h \in Handles :
          /\ process.closed[h] <= 1
          /\ process.closed[h] = 1 => h \in process.opened
    /\ process.pc = "exited" => \A h \in process.opened : process.closed[h] = 1

----------------------------------------------------------------------------
(* Documents and rows *)

\* C35: every document of the index is stored under the id of a committed
\* row of posts, and carries that id: no background task indexes a post
\* whose creation was rolled back or an id an update found no row for.
C35_DocumentsHaveRows ==
    \A k \in DOMAIN index : k \in DOMAIN posts /\ index[k].id = k

----------------------------------------------------------------------------
(* Two searches by tag in one state of the store *)

\* C36: two searches by the same tag that are answered 200 while the posts
\* table is as it was at start-up, so with no write before or between them,
\* return the same rows in the same order.
C36_FindByTagIsStable ==
    \A r1, r2 \in Answers :
        (/\ reqs[r1].kind = "search_by_tag" /\ reqs[r2].kind = "search_by_tag"
         /\ reqs[r1].status = StatusOK /\ reqs[r2].status = StatusOK
         /\ reqs[r1].q = reqs[r2].q
         /\ posts = SeedPosts) =>
            reqs[r1].result = reqs[r2].result

====
